---- MODULE Spec2Model ----
(***************************************************************************)
(* A model of the survey ingestion core of lennys-polls-site:              *)
(*   pipeline/ingest.py  question-role classifier and respondent builder   *)
(*   pipeline/core.py    distribution builder and survey counts            *)
(*                                                                         *)
(* Python strings are TLA+ strings; the character at position i of s is    *)
(* SubSeq(s, i, i).  TLA+ string literals are ASCII, so the en dash and    *)
(* the em dash of the source's regular expressions are written "~" and     *)
(* "^" (EnDash, EmDash); no text of the model uses these two characters    *)
(* for anything else.                                                      *)
(***************************************************************************)
EXTENDS Integers, Sequences, FiniteSets, TLC

VARIABLES doc, pc, q_map, respondents, dists, meta, arg, ret,
          active, commands, files

vars == <<doc, pc, q_map, respondents, dists, meta, arg, ret, active, commands, files>>

\* ---------------------------------------------------------------------
\* The texts of the documents explored.  Every string function below is
\* defined for every string; the tables named Cached... hold its values on
\* these texts, so that they are computed once.

QuestionTypes == {"multiple_choice", "open_ended"}

QuestionTexts ==
    { "How would you rate it?",
      "Your job Title?",
      "How long have you been a PM?",
      "Company size, and tenure there?" }

\* the question texts the role classifier is explored on by itself
RoleQuestionTexts ==
    { "What is your job title?", "What is your current role?",
      "Describe YOUR ROLE here", "Anything else?",
      "Current Title, and how long at this company size?" }

Users == {"u1", "u2"}

AnswerTexts == { "4 - Good", "2-10", "CEO", " " }

\* the creation time the survey system stamps on the k-th answer it records
Timestamps ==
    << "2025-01-02T03:04:05Z", "2025-01-03T10:00:00Z", "", "yesterday" >>

\* the answer texts the rating functions are explored on
RatingTexts == { "4 - Good", " 3 ~ ok ", "2-10", "11-50", "5", "Good" }

\* the choices the distribution builder is explored on: size brackets,
\* choices without a number, and rating choices
ChoiceTexts == { "2-10", "11-50", "Just me", "Other", "4 - Good", " 6 - top" }

\* the respondents of these choices, named in the order of their first vote
ChoiceUsers == << "u1", "u2", "u3" >>

\* the job titles the role categorization is explored on: a title is one of
\* TitleStarts followed by some of TitleFragments
TitleStarts ==
    { "", "VP of Product, previously a Product Owner", "Product Owner", "Engineer" }

TitleFragments ==
    { " CEO", " & Co-Founder", ", Director", " (Head of Product)",
      " Group PM", ", Senior Manager", " Product", " owner", "_x" }

\* ---------------------------------------------------------------------
\* Python values

\* Optional[T]: None is the empty tuple, a present value v is <<v>>.
None == <<>>

Some(v) == <<v>>

\* key in d
Has(d, key) == key \in DOMAIN d

\* d.get(key, default)
Get(d, key, default) == IF key \in DOMAIN d THEN d[key] ELSE default

\* the outcome of a call: it returns a value or raises an exception
Returned(v) == [value |-> v]

Raised(e) == [raised |-> e]

EnDash == "~"

EmDash == "^"

Ch(s, i) == SubSeq(s, i, i)

IsSpace(c) == c \in {" ", "\t", "\n"}

IsDigit(c) == c \in {"0", "1", "2", "3", "4", "5", "6", "7", "8", "9"}

IsDash(c) == c \in {"-", EnDash, EmDash}

UpperChars == "ABCDEFGHIJKLMNOPQRSTUVWXYZ"

LowerChars == "abcdefghijklmnopqrstuvwxyz"

\* str.lower() on one character
LowerCh(c) ==
    IF \E k \in 1..Len(UpperChars) : Ch(UpperChars, k) = c
    THEN Ch(LowerChars, CHOOSE k \in 1..Len(UpperChars) : Ch(UpperChars, k) = c)
    ELSE c

\* a character of the regular expression class \w
IsWordCh(c) ==
    \/ IsDigit(c)
    \/ c = "_"
    \/ \E k \in 1..Len(LowerChars) : Ch(LowerChars, k) = c
    \/ \E k \in 1..Len(UpperChars) : Ch(UpperChars, k) = c

RECURSIVE ToLower(_)
\* str.lower()
ToLower(s) == IF Len(s) = 0 THEN s ELSE LowerCh(Ch(s, 1)) \o ToLower(Tail(s))

RECURSIVE LStrip(_)
LStrip(s) == IF Len(s) > 0 /\ IsSpace(Ch(s, 1)) THEN LStrip(Tail(s)) ELSE s

RECURSIVE RStrip(_)
RStrip(s) ==
    IF Len(s) > 0 /\ IsSpace(Ch(s, Len(s)))
    THEN RStrip(SubSeq(s, 1, Len(s) - 1))
    ELSE s

\* str.strip()
Strip(s) == RStrip(LStrip(s))

CachedStrip == [t \in AnswerTexts |-> Strip(t)]

StripOf(t) == IF t \in DOMAIN CachedStrip THEN CachedStrip[t] ELSE Strip(t)

\* the answer texts and what str.strip() makes of them
KnownTexts ==
    AnswerTexts \cup { Strip(t) : t \in AnswerTexts } \cup RatingTexts \cup ChoiceTexts

\* kw in s
Contains(s, kw) ==
    \E i \in 1..(Len(s) - Len(kw) + 1) : SubSeq(s, i, i + Len(kw) - 1) = kw

RECURSIVE Replace(_, _, _)
\* str.replace(old, new): every non-overlapping occurrence, left to right
Replace(s, old, new) ==
    IF Len(s) < Len(old) THEN s
    ELSE IF SubSeq(s, 1, Len(old)) = old
         THEN new \o Replace(SubSeq(s, Len(old) + 1, Len(s)), old, new)
         ELSE Ch(s, 1) \o Replace(Tail(s), old, new)

RECURSIVE DigitRun(_, _)
\* the number of consecutive digits of s from position i on (regex \d*)
DigitRun(s, i) ==
    IF i <= Len(s) /\ IsDigit(Ch(s, i)) THEN 1 + DigitRun(s, i + 1) ELSE 0

RECURSIVE SpaceRun(_, _)
\* the number of consecutive whitespace characters of s from i on (regex \s*)
SpaceRun(s, i) ==
    IF i <= Len(s) /\ IsSpace(Ch(s, i)) THEN 1 + SpaceRun(s, i + 1) ELSE 0

\* str.isdigit()
IsDigitStr(s) == Len(s) > 0 /\ DigitRun(s, 1) = Len(s)

DigitVal(c) == CHOOSE k \in 0..9 : Ch("0123456789", k + 1) = c

RECURSIVE ToInt(_)
\* int(s) of a string of decimal digits
ToInt(s) ==
    IF Len(s) = 0 THEN 0
    ELSE 10 * ToInt(SubSeq(s, 1, Len(s) - 1)) + DigitVal(Ch(s, Len(s)))

\* ---------------------------------------------------------------------
\* ingest.py: rating question detection

\* re.match(r"^\d+\s+[-–—]\s+\S", s): the character classes of adjacent
\* pieces are disjoint, so the greedy runs are the only way to match.
RatingPatternMatch(s) ==
    LET d  == DigitRun(s, 1)
        w1 == SpaceRun(s, d + 1)
        w2 == SpaceRun(s, d + w1 + 2)
    IN  /\ d >= 1
        /\ w1 >= 1
        /\ d + w1 + 1 <= Len(s)
        /\ IsDash(Ch(s, d + w1 + 1))
        /\ w2 >= 1
        /\ d + w1 + 1 + w2 + 1 <= Len(s)

\* re.match(..., r.get("text", "").strip())
MatchesRating(text) == RatingPatternMatch(Strip(text))

CachedMatchesRating == [t \in KnownTexts |-> MatchesRating(t)]

MatchesRatingOf(t) ==
    IF t \in DOMAIN CachedMatchesRating THEN CachedMatchesRating[t] ELSE MatchesRating(t)

\* sum(1 for r in responses if re.match(..., r.get("text", "").strip()))
CountMatches(responses) ==
    Cardinality({ i \in 1..Len(responses) :
                    MatchesRatingOf(Get(responses[i], "text", "")) })

\* matches > len(responses) * 0.8, in tenths (the float product is exact
\* enough to agree with this for every list of up to 40 answers)
is_rating_question(responses) ==
    IF Len(responses) = 0 THEN FALSE
    ELSE 10 * CountMatches(responses) > 8 * Len(responses)

\* ---------------------------------------------------------------------
\* ingest.py: rating extraction

\* re.match(r"^(\d+)\s*[-–—]", text.strip()), then str.isdigit()
extract_rating(text) ==
    LET s == Strip(text)
        d == DigitRun(s, 1)
        w == SpaceRun(s, d + 1)
    IN  IF d >= 1 /\ d + w + 1 <= Len(s) /\ IsDash(Ch(s, d + w + 1))
        THEN Some(ToInt(SubSeq(s, 1, d)))
        ELSE IF IsDigitStr(s) THEN Some(ToInt(s))
        ELSE None

CachedExtractRating == [t \in KnownTexts |-> extract_rating(t)]

ExtractRatingOf(t) ==
    IF t \in DOMAIN CachedExtractRating THEN CachedExtractRating[t] ELSE extract_rating(t)

\* ---------------------------------------------------------------------
\* ingest.py: role categorization

FOUNDER_CSUITE == "Founder / C-suite"

VP_DIRECTOR_HEAD == "VP / Director / Head"

GROUP_PM_MANAGER == "Group PM / Manager"

IC == "IC"

RoleLevel == {FOUNDER_CSUITE, VP_DIRECTOR_HEAD, GROUP_PM_MANAGER, IC}

\* the keywords of the patterns r"\b<keyword>\b", in the order of the lists
FOUNDER_CSUITE_PATTERNS ==
    << "founder", "co-founder", "cofounder",
       "ceo", "cto", "coo", "cpo", "cso", "cmo", "cfo", "cro",
       "chief", "svp", "owner" >>

VP_DIRECTOR_HEAD_PATTERNS ==
    << "vp", "vice president", "director", "head of", "head," >>

GROUP_PM_PATTERNS == << "group pm", "group product", "manager of product" >>

\* whether position k of t holds a \w character (no position: no)
WordAt(t, k) == k >= 1 /\ k <= Len(t) /\ IsWordCh(Ch(t, k))

\* regex \b between positions k and k + 1 of t
Boundary(t, k) == WordAt(t, k) # WordAt(t, k + 1)

\* r"\b<kw>\b" matches t at position i
BMatchAt(t, kw, i) ==
    /\ i >= 1
    /\ i + Len(kw) - 1 <= Len(t)
    /\ SubSeq(t, i, i + Len(kw) - 1) = kw
    /\ Boundary(t, i - 1)
    /\ Boundary(t, i + Len(kw) - 1)

\* re.search(r"\b<kw>\b", t)
WordSearch(t, kw) == \E i \in 1..Len(t) : BMatchAt(t, kw, i)

\* any(re.search(pat, t) for pat in patterns)
AnyPattern(patterns, t) == \E k \in 1..Len(patterns) : WordSearch(t, patterns[k])

\* re.search(r"\bsenior manager\b.*\bproduct\b", t); "." matches no newline
SENIOR_MANAGER_PRODUCT(t) ==
    \E i \in 1..Len(t) : \E j \in 1..Len(t) :
        /\ BMatchAt(t, "senior manager", i)
        /\ BMatchAt(t, "product", j)
        /\ j >= i + Len("senior manager")
        /\ \A k \in (i + Len("senior manager"))..(j - 1) : Ch(t, k) # "\n"

\* a t_check without the "product owner" replacement
TCheck_Unguarded(title) == Strip(ToLower(title))

\* t_check = title.lower().strip().replace("product owner", ...)
TCheck(title) ==
    Replace(Strip(ToLower(title)), "product owner", "product_owner_excluded")

\* a categorization that tests the VP/Director/Head group first
categorize_role_VPFirst(title) ==
    IF title = "" THEN IC
    ELSE LET t_check == TCheck(title)
         IN  IF AnyPattern(VP_DIRECTOR_HEAD_PATTERNS, t_check) THEN VP_DIRECTOR_HEAD
             ELSE IF AnyPattern(FOUNDER_CSUITE_PATTERNS, t_check)
                  THEN FOUNDER_CSUITE
             ELSE IF AnyPattern(GROUP_PM_PATTERNS, t_check) THEN GROUP_PM_MANAGER
             ELSE IF SENIOR_MANAGER_PRODUCT(t_check) THEN GROUP_PM_MANAGER
             ELSE IC

categorize_role(title) ==
    IF title = "" THEN IC
    ELSE LET t_check == TCheck(title)
         IN  IF AnyPattern(FOUNDER_CSUITE_PATTERNS, t_check) THEN FOUNDER_CSUITE
             ELSE IF AnyPattern(VP_DIRECTOR_HEAD_PATTERNS, t_check)
                  THEN VP_DIRECTOR_HEAD
             ELSE IF AnyPattern(GROUP_PM_PATTERNS, t_check) THEN GROUP_PM_MANAGER
             ELSE IF SENIOR_MANAGER_PRODUCT(t_check) THEN GROUP_PM_MANAGER
             ELSE IC

CachedCategorizeRole == [t \in KnownTexts |-> categorize_role(t)]

CategorizeRoleOf(t) ==
    IF t \in DOMAIN CachedCategorizeRole THEN CachedCategorizeRole[t] ELSE categorize_role(t)

\* ---------------------------------------------------------------------
\* ingest.py: company size and tenure normalization

COMPANY_SIZE_MAP ==
    << <<"just me", "Just me">>, <<"2-10", "2~10">>, <<"11-50", "11~50">>,
       <<"51-250", "51~250">>, <<"251-1000", "251~1,000">>,
       <<"1001-5000", "1,001~5,000">>, <<"5001+", "5,001+">> >>

TENURE_MAP ==
    << <<"less than a year", "Less than 1 year">>, <<"1-2 years", "1~2 years">>,
       <<"3-5 years", "3~5 years">>, <<"6-10 years", "6~10 years">>,
       <<"11+ years", "11+ years">> >>

\* table.get(key, default) for a table of <<key, value>> pairs
TableGet(table, key, default) ==
    IF \E k \in 1..Len(table) : table[k][1] = key
    THEN table[CHOOSE k \in 1..Len(table) : table[k][1] = key][2]
    ELSE default

\* a company-size lookup by the raw string itself
normalize_company_size_Exact(raw) == TableGet(COMPANY_SIZE_MAP, raw, raw)

normalize_company_size(raw) == TableGet(COMPANY_SIZE_MAP, Strip(ToLower(raw)), raw)

normalize_tenure(raw) == TableGet(TENURE_MAP, Strip(ToLower(raw)), raw)

CachedCompanySize == [t \in KnownTexts |-> normalize_company_size(t)]

NormalizeCompanySizeOf(t) ==
    IF t \in DOMAIN CachedCompanySize THEN CachedCompanySize[t] ELSE normalize_company_size(t)

CachedTenure == [t \in KnownTexts |-> normalize_tenure(t)]

NormalizeTenureOf(t) ==
    IF t \in DOMAIN CachedTenure THEN CachedTenure[t] ELSE normalize_tenure(t)

\* ---------------------------------------------------------------------
\* ingest.py: question identification

Roles == {"rating", "open_text", "title", "company_size", "tenure"}

\* a dict: a function on the set of its keys
EmptyDict == [k \in {} |-> None]

\* d[k] = v
Put(d, k, v) == [x \in (DOMAIN d) \cup {k} |-> IF x = k THEN v ELSE d[x]]

\* the bot handles no command and the pipeline has written no file
Quiet == active = EmptyDict /\ commands = <<>> /\ files = EmptyDict

\* survey_data.get("questions", [])
GetQuestions(survey_data) ==
    IF "questions" \in DOMAIN survey_data THEN survey_data.questions ELSE <<>>

Keywords ==
    { "title", "current role", "your role", "current title",
      "size", "company", "how long", "tenure" }

\* kw in q.get("text", "").lower()
KwIn(kw, text) == Contains(ToLower(text), kw)

CachedKwIn ==
    [t \in QuestionTexts \cup RoleQuestionTexts |-> { kw \in Keywords : KwIn(kw, t) }]

KwInText(kw, text) ==
    IF text \in DOMAIN CachedKwIn /\ kw \in Keywords
    THEN kw \in CachedKwIn[text]
    ELSE KwIn(kw, text)

\* q_type == "multiple_choice" and _is_rating_question(q.get("results", []))
RatingPred(q) == q.type = "multiple_choice" /\ is_rating_question(q.results)

\* an open-text predicate that takes every open_ended question
OpenTextPred_AnyOpenEnded(q) == q.type = "open_ended"

\* q_type == "open_ended" and not any(kw in q_text for kw in (...))
OpenTextPred(q) ==
    /\ q.type = "open_ended"
    /\ ~ \E kw \in {"title", "current role", "your role"} :
            KwInText(kw, q.text)

\* q_type == "open_ended" and ("title" in q_text or ...)
TitlePred(q) ==
    /\ q.type = "open_ended"
    /\ \/ KwInText("title", q.text)
       \/ KwInText("current title", q.text)
       \/ KwInText("your role", q.text)

\* "size" in q_text and "company" in q_text
CompanySizePred(q) ==
    KwInText("size", q.text) /\ KwInText("company", q.text)

\* "how long" in q_text or "tenure" in q_text
TenurePred(q) ==
    KwInText("how long", q.text) \/ KwInText("tenure", q.text)

\* a classifier in which a later matching question replaces an earlier one
AssignRole_Overwrite(mapping, role, pred, q_id) ==
    IF pred THEN Put(mapping, role, q_id) ELSE mapping

\* if role not in mapping and <predicate>: mapping[role] = q_id
AssignRole(mapping, role, pred, q_id) ==
    IF role \notin DOMAIN mapping /\ pred THEN Put(mapping, role, q_id) ELSE mapping

\* the body of the loop over the questions: five independent ifs
AssignRoles(mapping, q) ==
    LET m1 == AssignRole(mapping, "rating", RatingPred(q), q.id)
        m2 == AssignRole(m1, "open_text", OpenTextPred(q), q.id)
        m3 == AssignRole(m2, "title", TitlePred(q), q.id)
        m4 == AssignRole(m3, "company_size", CompanySizePred(q), q.id)
    IN  AssignRole(m4, "tenure", TenurePred(q), q.id)

RECURSIVE IdentifyFrom(_, _)
IdentifyFrom(mapping, questions) ==
    IF Len(questions) = 0 THEN mapping
    ELSE IdentifyFrom(AssignRoles(mapping, Head(questions)), Tail(questions))

identify_questions(questions) == IdentifyFrom(EmptyDict, questions)

\* ---------------------------------------------------------------------
\* ingest.py: main ingestion

\* if r.get("deleted"): continue
SkipDeleted(r) == r.deleted

RECURSIVE ByUserFrom_KeepFirst(_, _)
\* a lookup in which the first answer of a user is kept
ByUserFrom_KeepFirst(by_user, results) ==
    IF Len(results) = 0 THEN by_user
    ELSE LET r == Head(results)
         IN  ByUserFrom_KeepFirst(
                 IF SkipDeleted(r) \/ r.user_id \in DOMAIN by_user THEN by_user
                 ELSE Put(by_user, r.user_id, r),
                 Tail(results))

RECURSIVE ByUserFrom(_, _)
\* for r in results: ...; by_user[r["user_id"]] = r
ByUserFrom(by_user, results) ==
    IF Len(results) = 0 THEN by_user
    ELSE LET r == Head(results)
         IN  ByUserFrom(IF SkipDeleted(r) THEN by_user
                        ELSE Put(by_user, r.user_id, r),
                        Tail(results))

ByUser(results) == ByUserFrom(EmptyDict, results)

RECURSIVE QResultsFrom(_, _)
\* for q in questions: q_results[q["id"]] = by_user
QResultsFrom(q_results, questions) ==
    IF Len(questions) = 0 THEN q_results
    ELSE QResultsFrom(Put(q_results, Head(questions).id,
                          ByUser(Head(questions).results)),
                      Tail(questions))

QResults(questions) == QResultsFrom(EmptyDict, questions)

\* d.get(k): truthy (a key of d with a non-empty string)
Truthy(d, k) == k \in DOMAIN d /\ d[k] # ""

\* q_results.get(q_id, {})
LookupOf(qr, q_id) == IF q_id \in DOMAIN qr THEN qr[q_id] ELSE EmptyDict

\* a cohort that prefers the rating question to the tenure question
Cohort_RatingFirst(qm, qr) ==
    IF Truthy(qm, "rating") /\ qm["rating"] \in DOMAIN qr
    THEN DOMAIN qr[qm["rating"]]
    ELSE DOMAIN LookupOf(qr, IF "tenure" \in DOMAIN qm THEN qm["tenure"] ELSE "")

\* a cohort of everyone who answered the tenure or the rating question
Cohort_Either(qm, qr) ==
    DOMAIN LookupOf(qr, IF "tenure" \in DOMAIN qm THEN qm["tenure"] ELSE "")
        \cup DOMAIN LookupOf(qr, IF "rating" \in DOMAIN qm THEN qm["rating"] ELSE "")

\* the cohort: the users of the tenure question, else of the rating question
Cohort(qm, qr) ==
    IF Truthy(qm, "tenure") /\ qm["tenure"] \in DOMAIN qr
    THEN DOMAIN qr[qm["tenure"]]
    ELSE DOMAIN LookupOf(qr, IF "rating" \in DOMAIN qm THEN qm["rating"] ELSE "")

\* datetime.fromisoformat accepts "YYYY-MM-DDTHH:MM:SS" with an optional
\* "+HH:MM" offset; every other text of the model's inputs raises ValueError
IsIsoFormat(s) ==
    /\ Len(s) \in {19, 25}
    /\ \A k \in {1, 2, 3, 4, 6, 7, 9, 10, 12, 13, 15, 16, 18, 19} : IsDigit(Ch(s, k))
    /\ Ch(s, 5) = "-" /\ Ch(s, 8) = "-" /\ Ch(s, 11) = "T"
    /\ Ch(s, 14) = ":" /\ Ch(s, 17) = ":"
    /\ Len(s) = 25 =>
          /\ Ch(s, 20) \in {"+", "-"} /\ Ch(s, 23) = ":"
          /\ \A k \in {21, 22, 24, 25} : IsDigit(Ch(s, k))

\* ts = result.get("created_at"); if ts: try fromisoformat(ts.replace("Z", "+00:00"))
ParseTimestamp(ts) ==
    IF ts = "" THEN None
    ELSE LET iso == Replace(ts, "Z", "+00:00")
         IN  IF IsIsoFormat(iso) THEN Some(iso) ELSE None

CachedTimestamp ==
    [ts \in { Timestamps[k] : k \in 1..Len(Timestamps) } |-> ParseTimestamp(ts)]

ParseTimestampOf(ts) ==
    IF ts \in DOMAIN CachedTimestamp THEN CachedTimestamp[ts] ELSE ParseTimestamp(ts)

\* whether uid answered the question mapped to role: q and uid in q_results.get(q, {})
Answered(qm, qr, role, uid) ==
    Truthy(qm, role) /\ uid \in DOMAIN LookupOf(qr, qm[role])

\* the (last non-deleted) answer of uid to the question mapped to role
AnswerOf(qm, qr, role, uid) == qr[qm[role]][uid]

\* a builder without the default
DefaultRoleLevel_Missing(level) == level

\* if r.role_level is None: r.role_level = RoleLevel.IC
DefaultRoleLevel(level) == IF level = None THEN Some(IC) ELSE level

\* the body of the loop over the cohort
MakeRespondent(qm, qr, uid) ==
    LET hasRating == Answered(qm, qr, "rating", uid)
        hasOpen   == Answered(qm, qr, "open_text", uid)
        hasTitle  == Answered(qm, qr, "title", uid)
        hasSize   == Answered(qm, qr, "company_size", uid)
        hasTenure == Answered(qm, qr, "tenure", uid)
        text      == IF hasOpen THEN StripOf(AnswerOf(qm, qr, "open_text", uid).text) ELSE ""
        title     == IF hasTitle THEN StripOf(AnswerOf(qm, qr, "title", uid).text) ELSE ""
        level     == IF title # "" THEN Some(CategorizeRoleOf(title)) ELSE None
    IN  [ user_id      |-> uid,
          rating       |-> IF hasRating
                           THEN ExtractRatingOf(AnswerOf(qm, qr, "rating", uid).text)
                           ELSE None,
          voted_at     |-> IF hasRating
                           THEN ParseTimestampOf(AnswerOf(qm, qr, "rating", uid).created_at)
                           ELSE None,
          open_text    |-> IF text # "" THEN Some(text) ELSE None,
          job_title    |-> IF title # "" THEN Some(title) ELSE None,
          role_level   |-> DefaultRoleLevel(level),
          company_size |-> IF hasSize
                           THEN Some(NormalizeCompanySizeOf(
                                       AnswerOf(qm, qr, "company_size", uid).text))
                           ELSE None,
          tenure       |-> IF hasTenure
                           THEN Some(NormalizeTenureOf(
                                       AnswerOf(qm, qr, "tenure", uid).text))
                           ELSE None ]

\* every order in which a set can be iterated
Orders(S) == { o \in [1..Cardinality(S) -> S] : \A u \in S : \E i \in DOMAIN o : o[i] = u }

\* ingest(survey_data, config), the cohort set iterated in the order `order`
ingest(survey_data, order) ==
    LET questions == GetQuestions(survey_data)
        qm == identify_questions(questions)
        qr == QResults(questions)
    IN  [i \in 1..Len(order) |-> MakeRespondent(qm, qr, order[i])]

\* the cohort of ingest(survey_data, ...)
IngestCohort(survey_data) ==
    Cohort(identify_questions(GetQuestions(survey_data)),
           QResults(GetQuestions(survey_data)))

\* by_user[r["user_id"]] = r raises KeyError: a non-deleted answer of the
\* results has no user_id
MissingUserId(results) ==
    \E i \in 1..Len(results) :
        ~SkipDeleted(results[i]) /\ ~Has(results[i], "user_id")

\* q_results[...][uid]["text"] raises KeyError: the answer of uid to the
\* question mapped to some role has no text
MissingText(qm, qr, uid) ==
    \E role \in Roles :
        Answered(qm, qr, role, uid) /\ ~Has(AnswerOf(qm, qr, role, uid), "text")

\* whether ingest(survey_data, config) raises
IngestRaises(survey_data) ==
    LET questions == GetQuestions(survey_data)
    IN  IF \E i \in 1..Len(questions) : MissingUserId(questions[i].results)
        THEN TRUE
        ELSE LET qm == identify_questions(questions)
                 qr == QResults(questions)
             IN  \E uid \in Cohort(qm, qr) : MissingText(qm, qr, uid)

\* the outcome of ingest(survey_data, config)
ingest_outcome(survey_data, order) ==
    IF IngestRaises(survey_data) THEN Raised("KeyError")
    ELSE Returned(ingest(survey_data, order))

\* the orders in which ingest may iterate its cohort (none when it raises
\* before the loop is over)
IngestOrders(survey_data) ==
    IF IngestRaises(survey_data) THEN { <<>> }
    ELSE Orders(IngestCohort(survey_data))

\* ---------------------------------------------------------------------
\* core.py: label shortening

\* s.find(sep) + 1 (0: sep is not in s)
Find(s, sep) ==
    IF Contains(s, sep)
    THEN CHOOSE i \in 1..Len(s) :
            /\ SubSeq(s, i, i + Len(sep) - 1) = sep
            /\ \A j \in 1..(i - 1) : SubSeq(s, j, j + Len(sep) - 1) # sep
    ELSE 0

\* text.split(sep, 1)[0] and [1], for sep in text
SplitBefore(s, sep) == SubSeq(s, 1, Find(s, sep) - 1)

SplitAfter(s, sep) == SubSeq(s, Find(s, sep) + Len(sep), Len(s))

RECURSIVE LineFrom(_, _)
\* regex (.*) at position i: the characters up to the next newline
LineFrom(s, i) ==
    IF i > Len(s) \/ Ch(s, i) = "\n" THEN ""
    ELSE Ch(s, i) \o LineFrom(s, i + 1)

\* re.match(r"^(\d+)\s+-\s+(.+)", s): group 2 as <<text>>, or None.  The
\* second \s+ is greedy and gives characters back until (.+) can match.
HyphenLabel(s) ==
    LET d  == DigitRun(s, 1)
        w1 == SpaceRun(s, d + 1)
        at == d + w1 + 1
        w2 == SpaceRun(s, at + 1)
        ks == { k \in 1..w2 : LineFrom(s, at + k + 1) # "" }
    IN  IF d >= 1 /\ w1 >= 1 /\ at <= Len(s) /\ Ch(s, at) = "-" /\ ks # {}
        THEN Some(LineFrom(s, at + (CHOOSE k \in ks : \A j \in ks : j <= k) + 1))
        ELSE None

short_choice(text) ==
    LET em == " " \o EmDash \o " "
        en == " " \o EnDash \o " "
        sep == IF Contains(text, em) THEN em ELSE en
        m == HyphenLabel(text)
    IN  IF Contains(text, em) \/ Contains(text, en)
        THEN IF IsDigitStr(Strip(SplitBefore(text, sep)))
             THEN Strip(SplitAfter(text, sep))
             ELSE Strip(SplitBefore(text, sep))
        ELSE IF m # None /\ ~IsDigitStr(Replace(Strip(m[1]), "+", ""))
             THEN Strip(m[1])
             ELSE Strip(text)

CachedShortChoice == [t \in KnownTexts |-> short_choice(t)]

ShortChoiceOf(t) ==
    IF t \in DOMAIN CachedShortChoice THEN CachedShortChoice[t] ELSE short_choice(t)

\* ---------------------------------------------------------------------
\* core.py: ordinal choices

\* re.match(r"^(\d+)", choice_text.strip())
ordinal_sort_key(choice_text) ==
    LET s == Strip(choice_text)
    IN  IF DigitRun(s, 1) >= 1 THEN Some(ToInt(SubSeq(s, 1, DigitRun(s, 1)))) ELSE None

CachedOrdinalKey == [t \in KnownTexts |-> ordinal_sort_key(t)]

OrdinalSortKeyOf(t) ==
    IF t \in DOMAIN CachedOrdinalKey THEN CachedOrdinalKey[t] ELSE ordinal_sort_key(t)

\* a detection that also takes one or two choices for an ordinal set
is_ordinal_choices_AnySize(choice_texts) ==
    10 * Cardinality({i \in 1..Len(choice_texts) :
                        OrdinalSortKeyOf(choice_texts[i]) # None})
        >= 6 * Len(choice_texts)

\* numeric >= len(choice_texts) * 0.6, in tenths (the float product agrees
\* with this for every list of up to 40 choices)
is_ordinal_choices(choice_texts) ==
    IF Len(choice_texts) < 3 THEN FALSE
    ELSE 10 * Cardinality({i \in 1..Len(choice_texts) :
                              OrdinalSortKeyOf(choice_texts[i]) # None})
            >= 6 * Len(choice_texts)

\* ---------------------------------------------------------------------
\* core.py: distributions

\* a filter that keeps the deleted answers
Filter_KeepDeleted(results) == results

RECURSIVE Filter(_)
\* [r for r in q.get("results", []) if not r.get("deleted")]
Filter(results) ==
    IF Len(results) = 0 THEN <<>>
    ELSE (IF Head(results).deleted THEN <<>> ELSE <<Head(results)>>)
         \o Filter(Tail(results))

\* the responses the distribution of a question is computed from
Responses(q) == Filter(q.results)

\* a count of respondents by the texts of their answers
UserIds_Texts(responses) == { responses[i].text : i \in 1..Len(responses) }

\* set(r["user_id"] for r in responses)
UserIds(responses) == { responses[i].user_id : i \in 1..Len(responses) }

\* a count of the respondents who gave the text, not of their answers
CountOf_Voters(responses, text) ==
    Cardinality({ responses[i].user_id :
                    i \in { k \in 1..Len(responses) : responses[k].text = text } })

\* Counter(...)[text]
CountOf(responses, text) ==
    Cardinality({ i \in 1..Len(responses) : responses[i].text = text })

RECURSIVE DistinctTexts(_)
\* the keys of Counter(r["text"] for r in responses), in insertion order
DistinctTexts(responses) ==
    IF Len(responses) = 0 THEN <<>>
    ELSE LET front == DistinctTexts(SubSeq(responses, 1, Len(responses) - 1))
             t == responses[Len(responses)].text
         IN  IF \E i \in 1..Len(front) : front[i] = t THEN front
             ELSE Append(front, t)

\* one step of a stable sort of <<key, item>> pairs by ascending key
InsertSorted(sorted, x) ==
    LET n == Cardinality({ i \in 1..Len(sorted) : sorted[i][1] <= x[1] })
    IN  SubSeq(sorted, 1, n) \o <<x>> \o SubSeq(sorted, n + 1, Len(sorted))

RECURSIVE StableSort(_)
\* sorted(pairs, key=first): stable, ascending
StableSort(pairs) ==
    IF Len(pairs) = 0 THEN <<>>
    ELSE InsertSorted(StableSort(SubSeq(pairs, 1, Len(pairs) - 1)), pairs[Len(pairs)])

\* the items of a sequence of <<key, item>> pairs
Items(pairs) == [i \in 1..Len(pairs) |-> pairs[i][2]]

\* a / b rounded to the nearest integer, ties to the even one
RoundDiv(a, b) ==
    LET q == a \div b
        r == a % b
    IN  IF 2 * r < b THEN q
        ELSE IF 2 * r > b THEN q + 1
        ELSE IF q % 2 = 0 THEN q ELSE q + 1

\* round(count / unique_users * 100, 1), in tenths of a percent
Pct10(count, unique_users) ==
    IF unique_users # 0 THEN RoundDiv(1000 * count, unique_users) ELSE 0

\* re.match(r"^(\d+)\s+[-–—]", choice_text): int(m.group(1)) if m else 0
ChoiceRating(choice_text) ==
    LET d == DigitRun(choice_text, 1)
        w == SpaceRun(choice_text, d + 1)
    IN  IF /\ d >= 1 /\ w >= 1 /\ d + w + 1 <= Len(choice_text)
           /\ IsDash(Ch(choice_text, d + w + 1))
        THEN ToInt(SubSeq(choice_text, 1, d))
        ELSE 0

CachedChoiceRating == [t \in KnownTexts |-> ChoiceRating(t)]

ChoiceRatingOf(t) ==
    IF t \in DOMAIN CachedChoiceRating THEN CachedChoiceRating[t] ELSE ChoiceRating(t)

\* Counter.most_common(): by descending count, ties in insertion order
MostCommon(responses) ==
    LET texts == DistinctTexts(responses)
    IN  Items(StableSort([i \in 1..Len(texts) |->
                            << 0 - CountOf(responses, texts[i]), texts[i] >>]))

\* the entry of one choice, before the sort and the bar widths
ChoiceEntry(responses, choice_text, is_rating) ==
    [ label  |-> ShortChoiceOf(choice_text),
      count  |-> CountOf(responses, choice_text),
      pct    |-> Pct10(CountOf(responses, choice_text),
                       Cardinality(UserIds(responses))),
      rating |-> IF is_rating THEN Some(ChoiceRatingOf(choice_text)) ELSE None,
      raw    |-> choice_text ]

\* a builder that leaves the choices in the order of their frequencies
SortChoices_ByFrequency(choices, is_rating) == choices

\* choices.sort(key=...) for a rating question, an ordinal one, or neither
SortChoices(choices, is_rating) ==
    IF is_rating
    THEN Items(StableSort([i \in 1..Len(choices) |->
                             << choices[i].rating[1], choices[i] >>]))
    ELSE IF is_ordinal_choices([i \in 1..Len(choices) |-> choices[i].raw])
    THEN Items(StableSort([i \in 1..Len(choices) |->
             << IF OrdinalSortKeyOf(choices[i].raw) # None
                THEN OrdinalSortKeyOf(choices[i].raw)[1] ELSE 0,
                choices[i] >>]))
    ELSE choices

\* max((c["pct"] for c in choices), default=1)
MaxPct(choices) ==
    IF Len(choices) = 0 THEN 10
    ELSE CHOOSE m \in { choices[i].pct : i \in 1..Len(choices) } :
            \A i \in 1..Len(choices) : choices[i].pct <= m

\* a bar as wide as the percentage itself
BarWidth10_Pct(pct, max_pct) == pct

\* round(c["pct"] / max_pct * 100, 1) if max_pct > 0 else 0, in tenths
BarWidth10(pct, max_pct) ==
    IF max_pct > 0 THEN RoundDiv(1000 * pct, max_pct) ELSE 0

\* the distribution of one multiple-choice question with responses
QuestionDistribution(q) ==
    LET responses == Responses(q)
        is_rating == is_rating_question(responses)
        common == MostCommon(responses)
        choices == SortChoices([i \in 1..Len(common) |->
                                  ChoiceEntry(responses, common[i], is_rating)],
                               is_rating)
    IN  [ question       |-> q.text,
          is_rating      |-> is_rating,
          is_multiselect |-> Len(responses) > Cardinality(UserIds(responses)),
          n_respondents  |-> Cardinality(UserIds(responses)),
          choices        |-> [i \in 1..Len(choices) |->
                                [ label     |-> choices[i].label,
                                  count     |-> choices[i].count,
                                  pct       |-> choices[i].pct,
                                  rating    |-> choices[i].rating,
                                  bar_width |-> BarWidth10(choices[i].pct,
                                                           MaxPct(choices)) ]] ]

RECURSIVE DistributionsOf_AnyType(_)
\* a loop that does not skip the questions of other types
DistributionsOf_AnyType(questions) ==
    IF Len(questions) = 0 THEN <<>>
    ELSE LET q == Head(questions)
         IN  (IF Len(Responses(q)) = 0 THEN <<>> ELSE <<QuestionDistribution(q)>>)
             \o DistributionsOf_AnyType(Tail(questions))

RECURSIVE DistributionsOf_KeepEmpty(_)
\* a loop without the `if not responses: continue`
DistributionsOf_KeepEmpty(questions) ==
    IF Len(questions) = 0 THEN <<>>
    ELSE LET q == Head(questions)
         IN  (IF q.type # "multiple_choice" THEN <<>> ELSE <<QuestionDistribution(q)>>)
             \o DistributionsOf_KeepEmpty(Tail(questions))

RECURSIVE DistributionsOf(_)
\* the loop over the questions: skip other types and questions without responses
DistributionsOf(questions) ==
    IF Len(questions) = 0 THEN <<>>
    ELSE LET q == Head(questions)
         IN  (IF q.type # "multiple_choice" \/ Len(Responses(q)) = 0 THEN <<>>
              ELSE <<QuestionDistribution(q)>>)
             \o DistributionsOf(Tail(questions))

build_question_distributions(survey_data) ==
    DistributionsOf(GetQuestions(survey_data))

\* r["user_id"] or r["text"] raises KeyError for a response of a
\* multiple-choice question
DistributionsRaise(survey_data) ==
    LET questions == GetQuestions(survey_data)
    IN  \E i \in 1..Len(questions) :
            /\ questions[i].type = "multiple_choice"
            /\ \E k \in 1..Len(Responses(questions[i])) :
                  \/ ~Has(Responses(questions[i])[k], "user_id")
                  \/ ~Has(Responses(questions[i])[k], "text")

\* the outcome of build_question_distributions(survey_data)
distributions_outcome(survey_data) ==
    IF DistributionsRaise(survey_data) THEN Raised("KeyError")
    ELSE Returned(build_question_distributions(survey_data))

\* ---------------------------------------------------------------------
\* core.py: survey counts

\* whether compute_survey_meta counts the answer r
Counted(r) == ~r.deleted

\* the user ids of the counted answers of one question
CountedUsers(q) == { q.results[i].user_id : i \in { j \in 1..Len(q.results) : Counted(q.results[j]) } }

\* (total_started, total_completed) of compute_survey_meta
compute_survey_meta(survey_data) ==
    LET questions == GetQuestions(survey_data)
        all_user_ids == UNION { CountedUsers(questions[i]) : i \in 1..Len(questions) }
    IN  << Cardinality(all_user_ids),
           IF Len(questions) # 0
           THEN Cardinality(CountedUsers(questions[Len(questions)]))
           ELSE Cardinality(all_user_ids) >>

\* all_user_ids.add(r["user_id"]) raises KeyError
MetaRaises(survey_data) ==
    LET questions == GetQuestions(survey_data)
    IN  \E i \in 1..Len(questions) : \E k \in 1..Len(questions[i].results) :
            Counted(questions[i].results[k]) /\ ~Has(questions[i].results[k], "user_id")

\* ---------------------------------------------------------------------
\* The survey document the pipeline receives (polly.get_survey_info) and
\* the two commands that process it (run_generate, run_peek).

\* bounds of the documents explored
MaxQuestions == 2

MaxAnswers == 2

QuestionIds == << "q1", "q2", "q3", "q4", "q5", "q6" >>

RECURSIVE TotalAnswers(_)
TotalAnswers(questions) ==
    IF Len(questions) = 0 THEN 0
    ELSE Len(Head(questions).results) + TotalAnswers(Tail(questions))

StampOf(k) == Timestamps[((k - 1) % Len(Timestamps)) + 1]

\* the survey system adds a question to the survey
AddQuestion(type, text) ==
    /\ pc = "fetch"
    /\ Has(doc, "questions")
    /\ Len(doc.questions) < MaxQuestions
    /\ doc' = [doc EXCEPT !.questions =
                 Append(@, [ id      |-> QuestionIds[Len(doc.questions) + 1],
                             type    |-> type,
                             text    |-> text,
                             results |-> <<>> ])]
    /\ UNCHANGED <<pc, q_map, respondents, dists, meta, arg, ret, active, commands, files>>

\* a user answers the newest question (or the answer is a soft-deleted one)
AddAnswer(uid, text, deleted) ==
    /\ pc = "fetch"
    /\ Has(doc, "questions")
    /\ Len(doc.questions) > 0
    /\ TotalAnswers(doc.questions) < MaxAnswers
    /\ doc' = [doc EXCEPT !.questions[Len(doc.questions)].results =
                 Append(@, [ user_id    |-> uid,
                             text       |-> text,
                             created_at |-> StampOf(TotalAnswers(doc.questions) + 1),
                             deleted    |-> deleted ])]
    /\ UNCHANGED <<pc, q_map, respondents, dists, meta, arg, ret, active, commands, files>>

\* run_generate: ingest, then build_question_distributions; an exception
\* of either leaves the command without a result
RunGenerate ==
    /\ pc = "fetch"
    /\ IF IngestRaises(doc) \/ DistributionsRaise(doc)
       THEN /\ pc' = "raised"
            /\ ret' = Raised("KeyError")
            /\ UNCHANGED <<doc, q_map, respondents, dists, meta, arg, active, commands, files>>
       ELSE /\ \E order \in Orders(IngestCohort(doc)) :
                  respondents' = ingest(doc, order)
            /\ q_map' = identify_questions(GetQuestions(doc))
            /\ dists' = build_question_distributions(doc)
            /\ pc' = "generated"
            /\ UNCHANGED <<doc, meta, arg, ret, active, commands, files>>

\* run_peek: compute_survey_meta, then build_question_distributions
RunPeek ==
    /\ pc = "fetch"
    /\ IF MetaRaises(doc) \/ DistributionsRaise(doc)
       THEN /\ pc' = "raised"
            /\ ret' = Raised("KeyError")
            /\ UNCHANGED <<doc, q_map, respondents, dists, meta, arg, active, commands, files>>
       ELSE /\ meta' = compute_survey_meta(doc)
            /\ dists' = build_question_distributions(doc)
            /\ pc' = "peeked"
            /\ UNCHANGED <<doc, q_map, respondents, arg, ret, active, commands, files>>

Init ==
    /\ doc = [questions |-> <<>>]
    /\ pc = "fetch"
    /\ q_map = EmptyDict
    /\ respondents = <<>>
    /\ dists = <<>>
    /\ meta = <<0, 0>>
    /\ arg = None
    /\ ret = None
    /\ Quiet

Next ==
    \/ \E type \in QuestionTypes : \E text \in QuestionTexts : AddQuestion(type, text)
    \/ \E uid \in Users : \E text \in AnswerTexts : \E deleted \in BOOLEAN :
          AddAnswer(uid, text, deleted)
    \/ RunGenerate
    \/ RunPeek

Spec == Init /\ [][Next]_vars

\* ---------------------------------------------------------------------
\* Documents that break the shape the survey system promises: a document
\* without the questions key, answers without user_id or without text.
\* ingest and build_question_distributions are applied on their own, and
\* the two commands as a whole.

MalformedQuestionTexts ==
    { "How would you rate it?", "Your job Title?", "How long have you been a PM?" }

MalformedAnswerTexts == { "4 - Good", "CEO" }

\* the fields an answer of a broken document may be left with, next to
\* created_at and deleted
PartialFields == { {"text"}, {"user_id"}, {} }

\* the survey system delivers an answer without some of its fields
AddPartialAnswer(uid, text, deleted, fields) ==
    /\ pc = "fetch"
    /\ Has(doc, "questions")
    /\ Len(doc.questions) > 0
    /\ TotalAnswers(doc.questions) < MaxAnswers
    /\ LET full == [ user_id    |-> uid,
                     text       |-> text,
                     created_at |-> StampOf(TotalAnswers(doc.questions) + 1),
                     deleted    |-> deleted ]
       IN  doc' = [doc EXCEPT !.questions[Len(doc.questions)].results =
                     Append(@, [k \in fields \cup {"created_at", "deleted"} |-> full[k]])]
    /\ UNCHANGED <<pc, q_map, respondents, dists, meta, arg, ret, active, commands, files>>

\* ingest(survey_data, config)
Ingest ==
    /\ pc = "fetch"
    /\ \E order \in IngestOrders(doc) : ret' = ingest_outcome(doc, order)
    /\ pc' = "ingested"
    /\ UNCHANGED <<doc, q_map, respondents, dists, meta, arg, active, commands, files>>

\* build_question_distributions(survey_data)
BuildDistributions ==
    /\ pc = "fetch"
    /\ ret' = distributions_outcome(doc)
    /\ pc' = "distributed"
    /\ UNCHANGED <<doc, q_map, respondents, dists, meta, arg, active, commands, files>>

InitMalformed ==
    /\ doc \in { [questions |-> <<>>], [id |-> "s1"] }
    /\ pc = "fetch"
    /\ q_map = EmptyDict
    /\ respondents = <<>>
    /\ dists = <<>>
    /\ meta = <<0, 0>>
    /\ arg = None
    /\ ret = None
    /\ Quiet

NextMalformed ==
    \/ \E type \in QuestionTypes : \E text \in MalformedQuestionTexts :
          AddQuestion(type, text)
    \/ \E uid \in Users : \E text \in MalformedAnswerTexts : \E deleted \in BOOLEAN :
          AddAnswer(uid, text, deleted)
    \/ \E uid \in Users : \E text \in MalformedAnswerTexts : \E deleted \in BOOLEAN :
          \E fields \in PartialFields : AddPartialAnswer(uid, text, deleted, fields)
    \/ Ingest
    \/ BuildDistributions
    \/ RunGenerate
    \/ RunPeek

SpecMalformed == InitMalformed /\ [][NextMalformed]_vars

\* ---------------------------------------------------------------------
\* The distribution builder on one multiple-choice question with several
\* votes: the votes are cast one by one, then the distributions are built.

MaxVotes == 4

\* the respondents that have voted so far
Voters(results) == { results[i].user_id : i \in 1..Len(results) }

\* a respondent casts a vote; a respondent who has not voted before is the
\* next one of ChoiceUsers
AddVote(uid, text) ==
    /\ pc = "fetch"
    /\ Len(doc.questions) = 1
    /\ Len(doc.questions[1].results) < MaxVotes
    /\ \/ uid \in Voters(doc.questions[1].results)
       \/ /\ Cardinality(Voters(doc.questions[1].results)) < Len(ChoiceUsers)
          /\ uid = ChoiceUsers[Cardinality(Voters(doc.questions[1].results)) + 1]
    /\ doc' = [doc EXCEPT !.questions[1].results =
                 Append(@, [ user_id    |-> uid,
                             text       |-> text,
                             created_at |-> "",
                             deleted    |-> FALSE ])]
    /\ UNCHANGED <<pc, q_map, respondents, dists, meta, arg, ret, active, commands, files>>

InitChoices ==
    /\ doc = [questions |-> << [ id      |-> "q1",
                                 type    |-> "multiple_choice",
                                 text    |-> "Company size?",
                                 results |-> <<>> ] >>]
    /\ pc = "fetch"
    /\ q_map = EmptyDict
    /\ respondents = <<>>
    /\ dists = <<>>
    /\ meta = <<0, 0>>
    /\ arg = None
    /\ ret = None
    /\ Quiet

NextChoices ==
    \/ \E k \in 1..Len(ChoiceUsers) : \E text \in ChoiceTexts :
          AddVote(ChoiceUsers[k], text)
    \/ BuildDistributions

SpecChoices == InitChoices /\ [][NextChoices]_vars

\* ---------------------------------------------------------------------
\* The rating functions on their own: a list of responses is put together
\* and _is_rating_question or _extract_rating is applied to it.

MaxResponses == 5

AddResponse(text) ==
    /\ pc = "input"
    /\ Len(arg) < MaxResponses
    /\ arg' = Append(arg, [text |-> text])
    /\ UNCHANGED <<doc, pc, q_map, respondents, dists, meta, ret, active, commands, files>>

\* _is_rating_question(responses)
Detect ==
    /\ pc = "input"
    /\ ret' = is_rating_question(arg)
    /\ pc' = "detected"
    /\ UNCHANGED <<doc, q_map, respondents, dists, meta, arg, active, commands, files>>

\* _extract_rating(result["text"]) on the newest response
Extract ==
    /\ pc = "input"
    /\ Len(arg) > 0
    /\ ret' = ExtractRatingOf(arg[Len(arg)].text)
    /\ pc' = "extracted"
    /\ UNCHANGED <<doc, q_map, respondents, dists, meta, arg, active, commands, files>>

InitRating ==
    /\ doc = [questions |-> <<>>]
    /\ pc = "input"
    /\ q_map = EmptyDict
    /\ respondents = <<>>
    /\ dists = <<>>
    /\ meta = <<0, 0>>
    /\ arg = <<>>
    /\ ret = None
    /\ Quiet

NextRating ==
    \/ \E text \in RatingTexts : AddResponse(text)
    \/ Detect
    \/ Extract

SpecRating == InitRating /\ [][NextRating]_vars

\* ---------------------------------------------------------------------
\* categorize_role on its own: a title is put together and categorized.

MaxFragments == 2

RECURSIVE Join(_)
\* "".join(parts)
Join(parts) == IF Len(parts) = 0 THEN "" ELSE Head(parts) \o Join(Tail(parts))

AppendFragment(f) ==
    /\ pc = "input"
    /\ Len(arg) < MaxFragments + 1
    /\ arg' = Append(arg, f)
    /\ UNCHANGED <<doc, pc, q_map, respondents, dists, meta, ret, active, commands, files>>

\* categorize_role(title)
Categorize ==
    /\ pc = "input"
    /\ ret' = categorize_role(Join(arg))
    /\ pc' = "categorized"
    /\ UNCHANGED <<doc, q_map, respondents, dists, meta, arg, active, commands, files>>

InitRole ==
    /\ doc = [questions |-> <<>>]
    /\ pc = "input"
    /\ q_map = EmptyDict
    /\ respondents = <<>>
    /\ dists = <<>>
    /\ meta = <<0, 0>>
    /\ arg \in { <<t>> : t \in TitleStarts }
    /\ ret = None
    /\ Quiet

NextRole ==
    \/ \E f \in TitleFragments : AppendFragment(f)
    \/ Categorize

SpecRole == InitRole /\ [][NextRole]_vars

\* ---------------------------------------------------------------------
\* The two normalizations on their own: a raw answer is a text in some
\* letter case with whitespace around it.

\* the raw answers before whitespace is put around them
NormalizeBodies ==
    { "2-10", "Just Me", "JUST ME", "5001+", "2 - 10", "Startup",
      "1-2 Years", "11+ years", "Less than a Year", "1-2  years" }

Paddings == { " ", "\t", "\n" }

MaxPadding == 2

\* whitespace is put before the raw answer
PadLeft(c) ==
    /\ pc = "input"
    /\ Len(arg[1]) + Len(arg[3]) < MaxPadding
    /\ arg' = << c \o arg[1], arg[2], arg[3] >>
    /\ UNCHANGED <<doc, pc, q_map, respondents, dists, meta, ret, active, commands, files>>

\* whitespace is put after the raw answer
PadRight(c) ==
    /\ pc = "input"
    /\ Len(arg[1]) + Len(arg[3]) < MaxPadding
    /\ arg' = << arg[1], arg[2], arg[3] \o c >>
    /\ UNCHANGED <<doc, pc, q_map, respondents, dists, meta, ret, active, commands, files>>

\* the raw string the normalizations are applied to
RawOf(parts) == parts[1] \o parts[2] \o parts[3]

\* _normalize_company_size(raw)
NormalizeCompanySize ==
    /\ pc = "input"
    /\ ret' = normalize_company_size(RawOf(arg))
    /\ pc' = "company_size"
    /\ UNCHANGED <<doc, q_map, respondents, dists, meta, arg, active, commands, files>>

\* _normalize_tenure(raw)
NormalizeTenure ==
    /\ pc = "input"
    /\ ret' = normalize_tenure(RawOf(arg))
    /\ pc' = "tenure"
    /\ UNCHANGED <<doc, q_map, respondents, dists, meta, arg, active, commands, files>>

InitNormalize ==
    /\ doc = [questions |-> <<>>]
    /\ pc = "input"
    /\ q_map = EmptyDict
    /\ respondents = <<>>
    /\ dists = <<>>
    /\ meta = <<0, 0>>
    /\ arg \in { << "", b, "" >> : b \in NormalizeBodies }
    /\ ret = None
    /\ Quiet

NextNormalize ==
    \/ \E c \in Paddings : PadLeft(c)
    \/ \E c \in Paddings : PadRight(c)
    \/ NormalizeCompanySize
    \/ NormalizeTenure

SpecNormalize == InitNormalize /\ [][NextNormalize]_vars

\* ---------------------------------------------------------------------
\* short_choice on its own: a choice text is put together and shortened.

\* how the choice texts begin
LabelStarts == { "4", "1 - ", "Just me", " 4", "11-50", "5001+" }

LabelFragments == { " ^ ", " ~ ", " - ", "Good", "50", "+", " " }

\* short_choice(text)
ShortChoice ==
    /\ pc = "input"
    /\ ret' = short_choice(Join(arg))
    /\ pc' = "shortened"
    /\ UNCHANGED <<doc, q_map, respondents, dists, meta, arg, active, commands, files>>

InitLabel ==
    /\ doc = [questions |-> <<>>]
    /\ pc = "input"
    /\ q_map = EmptyDict
    /\ respondents = <<>>
    /\ dists = <<>>
    /\ meta = <<0, 0>>
    /\ arg \in { <<t>> : t \in LabelStarts }
    /\ ret = None
    /\ Quiet

NextLabel ==
    \/ \E f \in LabelFragments : AppendFragment(f)
    \/ ShortChoice

SpecLabel == InitLabel /\ [][NextLabel]_vars

\* ---------------------------------------------------------------------
\* bot.py: the /generate slash command.  Slack delivers each command to a
\* handler thread; an accepted command starts a worker thread.  _active
\* is only read and written under _active_lock, so _mark_active and the
\* pop of _mark_done are single steps; every other step of a handler or a
\* worker touches nothing shared.

MaxCommands == 3

ALLOWED_CHANNEL == "C0AFUHDNR24"

\* the commands Slack delivers: the text after /generate and the channel
CommandInputs ==
    { [text |-> "s1", channel_id |-> ALLOWED_CHANNEL],
      [text |-> " s1 ", channel_id |-> ALLOWED_CHANNEL],
      [text |-> "s2", channel_id |-> ALLOWED_CHANNEL],
      [text |-> "", channel_id |-> ALLOWED_CHANNEL],
      [text |-> "s1", channel_id |-> "C0000000000"] }

\* key = f"generate:{survey_id}"
KeyOf(survey_id) == "generate:" \o survey_id

\* the texts a handler acknowledges a command with (a TLA+ string holds no
\* backquote: the backquotes of the messages are written as apostrophes)
AckChannel == "This command can only be used in the Lenny's Polls channel."

AckUsage == "Usage: '/generate <survey_id>'"

AckAlreadyRunning(survey_id) ==
    "Generate is already running for '" \o survey_id \o "'. Please wait."

AckGenerating(survey_id) ==
    "Generating dashboard for '" \o survey_id \o "'... ~2-3 minutes."

\* a _mark_active without the test `key in _active`
mark_active_Unchecked(a, key) == [ok |-> TRUE, active |-> Put(a, key, "Event")]

\* _mark_active(key): the value returned and _active afterwards
mark_active(a, key) ==
    IF key \in DOMAIN a THEN [ok |-> FALSE, active |-> a]
    ELSE [ok |-> TRUE, active |-> Put(a, key, "Event")]

\* _active.pop(key, None)
mark_done(a, key) == [k \in (DOMAIN a) \ {key} |-> a[k]]

\* a worker whose _mark_done is skipped when the failure report itself fails
WorkerNext_DoneAfterTry(at, raised) ==
    CASE at = "run_generate" -> IF raised THEN "except" ELSE "push_draft_to_github"
      [] at = "push_draft_to_github" -> IF raised THEN "except" ELSE "respond"
      [] at = "respond" -> IF raised THEN "except" ELSE "finally"
      [] at = "except" -> IF raised THEN "ended" ELSE "finally"

\* where the worker goes after the call it is at returned or raised:
\* try: run_generate, push_draft_to_github, respond; except: respond;
\* finally: _mark_done
WorkerNext(at, raised) ==
    CASE at = "run_generate" -> IF raised THEN "except" ELSE "push_draft_to_github"
      [] at = "push_draft_to_github" -> IF raised THEN "except" ELSE "respond"
      [] at = "respond" -> IF raised THEN "except" ELSE "finally"
      [] at = "except" -> "finally"

\* Slack delivers a /generate command: a handler thread begins
Receive(command) ==
    /\ Len(commands) < MaxCommands
    /\ commands' = Append(commands, [ text       |-> command.text,
                                      channel_id |-> command.channel_id,
                                      at         |-> "handle_generate",
                                      ack        |-> None,
                                      worker     |-> "none",
                                      raised     |-> FALSE,
                                      responded  |-> <<>> ])
    /\ UNCHANGED <<doc, pc, q_map, respondents, dists, meta, arg, ret, active, files>>

\* handle_generate up to the start of the worker
HandleGenerate(i) ==
    /\ i \in 1..Len(commands)
    /\ commands[i].at = "handle_generate"
    /\ LET survey_id == Strip(commands[i].text)
           marked == mark_active(active, KeyOf(survey_id))
       IN  IF commands[i].channel_id # ALLOWED_CHANNEL
           THEN /\ commands' = [commands EXCEPT ![i].ack = Some(AckChannel),
                                                ![i].at = "returned"]
                /\ UNCHANGED active
           ELSE IF survey_id = ""
           THEN /\ commands' = [commands EXCEPT ![i].ack = Some(AckUsage),
                                                ![i].at = "returned"]
                /\ UNCHANGED active
           ELSE IF ~marked.ok
           THEN /\ commands' = [commands EXCEPT
                                  ![i].ack = Some(AckAlreadyRunning(survey_id)),
                                  ![i].at = "returned"]
                /\ active' = marked.active
           ELSE /\ commands' = [commands EXCEPT
                                  ![i].ack = Some(AckGenerating(survey_id)),
                                  ![i].at = "start"]
                /\ active' = marked.active
    /\ UNCHANGED <<doc, pc, q_map, respondents, dists, meta, arg, ret, files>>

\* threading.Thread(target=_run, daemon=True).start()
StartWorker(i) ==
    /\ i \in 1..Len(commands)
    /\ commands[i].at = "start"
    /\ commands' = [commands EXCEPT ![i].at = "returned",
                                    ![i].worker = "run_generate"]
    /\ UNCHANGED <<doc, pc, q_map, respondents, dists, meta, arg, ret, active, files>>

\* one call of _run returns or raises: run_generate, push_draft_to_github,
\* respond(blocks=...), or the respond(text="Generate failed...") of the
\* except block
WorkerCall(i, raises) ==
    /\ i \in 1..Len(commands)
    /\ commands[i].worker \in {"run_generate", "push_draft_to_github", "respond", "except"}
    /\ commands' =
          [commands EXCEPT
             ![i].worker = WorkerNext(commands[i].worker, raises),
             ![i].raised = @ \/ raises,
             ![i].responded =
                 IF raises \/ commands[i].worker \notin {"respond", "except"} THEN @
                 ELSE Append(@, IF commands[i].worker = "respond"
                                THEN "in_channel" ELSE "ephemeral")]
    /\ UNCHANGED <<doc, pc, q_map, respondents, dists, meta, arg, ret, active, files>>

\* finally: _mark_done(key), the pop under the lock
WorkerMarkDone(i) ==
    /\ i \in 1..Len(commands)
    /\ commands[i].worker = "finally"
    /\ active' = mark_done(active, KeyOf(Strip(commands[i].text)))
    /\ commands' = [commands EXCEPT ![i].worker = "event.set"]
    /\ UNCHANGED <<doc, pc, q_map, respondents, dists, meta, arg, ret, files>>

\* if event: event.set(), and the thread ends
WorkerEnd(i) ==
    /\ i \in 1..Len(commands)
    /\ commands[i].worker = "event.set"
    /\ commands' = [commands EXCEPT ![i].worker = "ended"]
    /\ UNCHANGED <<doc, pc, q_map, respondents, dists, meta, arg, ret, active, files>>

\* the steps of the threads of command i
Thread(i) ==
    \/ HandleGenerate(i)
    \/ StartWorker(i)
    \/ \E raises \in BOOLEAN : WorkerCall(i, raises)
    \/ WorkerMarkDone(i)
    \/ WorkerEnd(i)

NextBot ==
    \/ \E command \in CommandInputs : Receive(command)
    \/ \E i \in 1..MaxCommands : HandleGenerate(i)
    \/ \E i \in 1..MaxCommands : StartWorker(i)
    \/ \E i \in 1..MaxCommands : \E raises \in BOOLEAN : WorkerCall(i, raises)
    \/ \E i \in 1..MaxCommands : WorkerMarkDone(i)
    \/ \E i \in 1..MaxCommands : WorkerEnd(i)

SpecBot == Init /\ [][NextBot]_vars

\* every thread that can take a step eventually takes one, and every call
\* of a worker returns or raises
SpecBotFair == SpecBot /\ \A i \in 1..MaxCommands : WF_vars(Thread(i))

\* ---------------------------------------------------------------------
\* publish.py: the files of the pipeline and of the site.  files maps the
\* path of each file that exists to its text.

INDEX_PATH == "index.html"

INSERT_MARKER == "<!-- ADD MORE POLLS HERE -->"

\* DRAFTS_DIR / f"{slug}.html" and DRAFTS_DIR / f"{slug}-social.html"
DashboardDraft(slug) == "drafts/" \o slug \o ".html"

SocialDraft(slug) == "drafts/" \o slug \o "-social.html"

\* POLLS_DIR / f"{slug}.html" and POLLS_DIR / f"{slug}-social.html"
DashboardDest(slug) == "polls/" \o slug \o ".html"

SocialDest(slug) == "polls/" \o slug \o "-social.html"

\* the positions of s where sub begins
Occurrences(s, sub) ==
    { i \in 1..(Len(s) - Len(sub) + 1) : SubSeq(s, i, i + Len(sub) - 1) = sub }

RECURSIVE ReplaceAll(_, _, _)
\* str.replace(old, new) for a text of any length: the occurrences of old,
\* left to right and without overlap
ReplaceAll(s, old, new) ==
    IF Occurrences(s, old) = {} THEN s
    ELSE LET i == CHOOSE k \in Occurrences(s, old) : \A j \in Occurrences(s, old) : k <= j
         IN  SubSeq(s, 1, i - 1) \o new
             \o ReplaceAll(SubSeq(s, i + Len(old), Len(s)), old, new)

\* len(re.findall(r'class="poll-card', content))
count_existing_polls(content) == Cardinality(Occurrences(content, "class=\"poll-card"))

\* f"delay-{existing_count + 1}" if existing_count < 5 else "delay-3"
delay_class(existing_count) ==
    IF existing_count < 5 THEN "delay-" \o ToString(existing_count + 1) ELSE "delay-3"

\* the poll card (its arrow is written "->")
card_html(slug, title, response_count, date_range, delay) ==
    "    <a href=\"/polls/" \o slug \o ".html\" class=\"poll-card animate-in "
        \o delay \o "\">\n"
    \o "      <div class=\"poll-card-content\">\n"
    \o "        <div class=\"poll-card-title\">" \o title \o "</div>\n"
    \o "        <div class=\"poll-card-meta\">\n"
    \o "          <span>" \o ToString(response_count) \o " responses</span>\n"
    \o "          <span>" \o date_range \o "</span>\n"
    \o "        </div>\n"
    \o "      </div>\n"
    \o "      <div class=\"poll-card-arrow\">-></div>\n"
    \o "    </a>\n"
    \o "\n"
    \o "    "

\* an index update without the test for a poll that is already listed
update_index_Unchecked(fs, slug, title, response_count, date_range) ==
    IF ~Has(fs, INDEX_PATH) THEN fs
    ELSE LET content == fs[INDEX_PATH]
         IN  IF ~Contains(content, INSERT_MARKER) THEN fs
             ELSE Put(fs, INDEX_PATH,
                      ReplaceAll(content, INSERT_MARKER,
                                 card_html(slug, title, response_count, date_range,
                                           delay_class(count_existing_polls(content)))
                                 \o INSERT_MARKER))

\* _update_index(slug, title, response_count, date_range): the files afterwards
update_index(fs, slug, title, response_count, date_range) ==
    IF ~Has(fs, INDEX_PATH) THEN fs
    ELSE LET content == fs[INDEX_PATH]
         IN  IF Contains(content, "/polls/" \o slug \o ".html") THEN fs
             ELSE IF ~Contains(content, INSERT_MARKER) THEN fs
             ELSE Put(fs, INDEX_PATH,
                      ReplaceAll(content, INSERT_MARKER,
                                 card_html(slug, title, response_count, date_range,
                                           delay_class(count_existing_polls(content)))
                                 \o INSERT_MARKER))

\* the slugs, titles, response counts and date ranges of the polls
Slugs == { "ai", "ai-tools", "jobs" }

CardData ==
    { [title |-> "Ai Tools", response_count |-> 0, date_range |-> ""],
      [title |-> "How do you feel about your job?", response_count |-> 1234,
       date_range |-> "Jan 5 ~ Jan 9, 2025"] }

\* index.html before the first card, and with one card written by hand
IndexPage ==
    "<main class=\"polls\">\n    " \o INSERT_MARKER \o "\n</main>\n"

IndexPageWithCard ==
    ReplaceAll(IndexPage, INSERT_MARKER,
               card_html("jobs", "Jobs", 17, "2024", "delay-1") \o INSERT_MARKER)

\* the site before the pipeline runs: with or without index.html, with or
\* without the marker in it
InitialSites ==
    { EmptyDict,
      [p \in {INDEX_PATH} |-> IndexPage],
      [p \in {INDEX_PATH} |-> IndexPageWithCard],
      [p \in {INDEX_PATH} |-> "<main class=\"polls\">\n</main>\n"] }

\* render.write_dashboard and social.write_social write the drafts of a poll
WriteDrafts(slug, social) ==
    /\ ~Has(files, DashboardDraft(slug))
    /\ files' = IF social
                THEN Put(Put(files, DashboardDraft(slug), "<html>dashboard</html>"),
                         SocialDraft(slug), "<html>social</html>")
                ELSE Put(files, DashboardDraft(slug), "<html>dashboard</html>")
    /\ UNCHANGED <<doc, pc, q_map, respondents, dists, meta, arg, ret, active, commands>>

\* publish(slug, response_count, date_range, title)
Publish(slug, data) ==
    /\ arg' = [slug |-> slug, data |-> data]
    /\ IF ~Has(files, DashboardDraft(slug))
       THEN /\ ret' = Raised("FileNotFoundError")
            /\ UNCHANGED files
       ELSE LET copied == Put(files, DashboardDest(slug), files[DashboardDraft(slug)])
                both == IF Has(files, SocialDraft(slug))
                        THEN Put(copied, SocialDest(slug), files[SocialDraft(slug)])
                        ELSE copied
            IN  /\ files' = update_index(both, slug, data.title, data.response_count,
                                         data.date_range)
                /\ ret' = Returned(None)
    /\ UNCHANGED <<doc, pc, q_map, respondents, dists, meta, active, commands>>

InitPublish ==
    /\ doc = [questions |-> <<>>]
    /\ pc = "fetch"
    /\ q_map = EmptyDict
    /\ respondents = <<>>
    /\ dists = <<>>
    /\ meta = <<0, 0>>
    /\ arg = None
    /\ ret = None
    /\ active = EmptyDict
    /\ commands = <<>>
    /\ files \in InitialSites

NextPublish ==
    \/ \E slug \in Slugs : \E social \in BOOLEAN : WriteDrafts(slug, social)
    \/ \E slug \in Slugs : \E data \in CardData : Publish(slug, data)

SpecPublish == InitPublish /\ [][NextPublish]_vars

\* ---------------------------------------------------------------------
\* _identify_questions on its own: questions are added to the document,
\* then the roles are identified.

\* _identify_questions(questions)
Identify ==
    /\ pc = "fetch"
    /\ q_map' = identify_questions(GetQuestions(doc))
    /\ pc' = "identified"
    /\ UNCHANGED <<doc, respondents, dists, meta, arg, ret, active, commands, files>>

NextIdentify ==
    \/ \E type \in QuestionTypes : \E text \in RoleQuestionTexts : AddQuestion(type, text)
    \/ Identify

SpecIdentify == Init /\ [][NextIdentify]_vars

\* ---------------------------------------------------------------------
\* core.py: detect_config on one multiple-choice question: the votes are
\* cast one by one, then the configuration is detected.

MaxScaleVotes == 6

\* the choice texts of the scale: four labelled values and a bare "3",
\* which is a rating without a label and does not match the rating pattern
ScaleTexts == { "1 - Bad", "3 - OK", "4 - Good", "5 - Great", "3" }

\* re.match(r"^\d+\s+[-–—]\s+(.+)", r["text"].strip()): m.group(1).strip()
\* as <<label>>, or None
ScaleLabel(text) ==
    LET s  == Strip(text)
        d  == DigitRun(s, 1)
        w1 == SpaceRun(s, d + 1)
        at == d + w1 + 1
        w2 == SpaceRun(s, at + 1)
    IN  IF /\ d >= 1 /\ w1 >= 1 /\ at <= Len(s) /\ IsDash(Ch(s, at))
           /\ w2 >= 1 /\ at + w2 + 1 <= Len(s)
        THEN Some(Strip(LineFrom(s, at + w2 + 1)))
        ELSE None

CachedScaleLabel == [t \in ScaleTexts |-> ScaleLabel(t)]

CachedScaleRating == [t \in ScaleTexts |-> extract_rating(t)]

CachedScaleMatches == [t \in ScaleTexts |-> MatchesRating(t)]

RECURSIVE ScaleLabelsFrom(_, _, _)
\* the loop over the responses of the rating question: the first response
\* of each rating decides whether the rating gets a label
ScaleLabelsFrom(responses, seen, scale_labels) ==
    IF Len(responses) = 0 THEN scale_labels
    ELSE LET text   == Get(Head(responses), "text", "")
             rating == CachedScaleRating[text]
             m      == CachedScaleLabel[text]
         IN  IF rating # None /\ rating[1] \notin seen
             THEN ScaleLabelsFrom(Tail(responses), seen \cup {rating[1]},
                                  IF m # None THEN Put(scale_labels, rating[1], m[1])
                                  ELSE scale_labels)
             ELSE ScaleLabelsFrom(Tail(responses), seen, scale_labels)

\* _is_rating_question(responses) on the texts of the scale
IsScaleQuestion(responses) ==
    /\ Len(responses) > 0
    /\ 10 * Cardinality({ i \in 1..Len(responses) :
                            CachedScaleMatches[Get(responses[i], "text", "")] })
          > 8 * Len(responses)

RECURSIVE RatingQuestionOf(_)
\* the first multiple-choice question whose non-deleted responses are
\* ratings, as <<q>>, or None
RatingQuestionOf(questions) ==
    IF Len(questions) = 0 THEN None
    ELSE LET q == Head(questions)
         IN  IF q.type = "multiple_choice" /\ IsScaleQuestion(Responses(q))
             THEN Some(q)
             ELSE RatingQuestionOf(Tail(questions))

\* {1: "1", 2: "2", 3: "3", 4: "4", 5: "5"}
DefaultScaleLabels == [k \in 1..5 |-> ToString(k)]

\* sorted(scale_labels.keys())
SortedKeys(scale_labels) ==
    [j \in 1..Cardinality(DOMAIN scale_labels) |->
        CHOOSE k \in DOMAIN scale_labels :
            Cardinality({ x \in DOMAIN scale_labels : x <= k }) = j]

\* positive_threshold = sorted_keys[-2] if len(sorted_keys) >= 2 else scale_max
PositiveThreshold(sorted_keys) ==
    IF Len(sorted_keys) >= 2 THEN sorted_keys[Len(sorted_keys) - 1]
    ELSE sorted_keys[Len(sorted_keys)]

\* negative_threshold = sorted_keys[1] if len(sorted_keys) >= 2 else scale_min
NegativeThreshold(sorted_keys) ==
    IF Len(sorted_keys) >= 2 THEN sorted_keys[2] ELSE sorted_keys[1]

\* detect_config(survey_id, survey_data): the fields of the SurveyConfig
\* that come from the scale (slug, scale_description and the fixed fields
\* are not carried)
detect_config(survey_data) ==
    LET found == RatingQuestionOf(GetQuestions(survey_data))
        detected == IF found = None THEN EmptyDict
                    ELSE ScaleLabelsFrom(Responses(found[1]), {}, EmptyDict)
        scale_labels == IF DOMAIN detected = {} THEN DefaultScaleLabels ELSE detected
        sorted_keys == SortedKeys(scale_labels)
    IN  [ title              |-> IF found = None THEN "Survey" ELSE found[1].text,
          scale_labels       |-> scale_labels,
          scale_min          |-> sorted_keys[1],
          scale_max          |-> sorted_keys[Len(sorted_keys)],
          positive_threshold |-> PositiveThreshold(sorted_keys),
          negative_threshold |-> NegativeThreshold(sorted_keys) ]

\* a respondent picks a value of the scale
AddScaleVote(text) ==
    /\ pc = "fetch"
    /\ Len(doc.questions) = 1
    /\ Len(doc.questions[1].results) < MaxScaleVotes
    /\ doc' = [doc EXCEPT !.questions[1].results =
                 Append(@, [ user_id    |-> ChoiceUsers[1],
                             text       |-> text,
                             created_at |-> "",
                             deleted    |-> FALSE ])]
    /\ UNCHANGED <<pc, q_map, respondents, dists, meta, arg, ret, active, commands, files>>

DetectConfig ==
    /\ pc = "fetch"
    /\ ret' = detect_config(doc)
    /\ pc' = "configured"
    /\ UNCHANGED <<doc, q_map, respondents, dists, meta, arg, active, commands, files>>

InitConfig ==
    /\ doc = [questions |-> << [ id      |-> "q1",
                                 type    |-> "multiple_choice",
                                 text    |-> "How was it?",
                                 results |-> <<>> ] >>]
    /\ pc = "fetch"
    /\ q_map = EmptyDict
    /\ respondents = <<>>
    /\ dists = <<>>
    /\ meta = <<0, 0>>
    /\ arg = None
    /\ ret = None
    /\ Quiet

NextConfig ==
    \/ \E text \in ScaleTexts : AddScaleVote(text)
    \/ DetectConfig

SpecConfig == InitConfig /\ [][NextConfig]_vars

\* =====================================================================
\* Properties

SetMin(S) == CHOOSE m \in S : \A x \in S : m <= x

SetMax(S) == CHOOSE m \in S : \A x \in S : x <= m

\* the question of the document with the given id (ids are unique)
QuestionWithId(id) ==
    doc.questions[CHOOSE i \in 1..Len(doc.questions) : doc.questions[i].id = id]

\* the positions of the non-deleted answers of uid in the results of q
LiveAnswers(q, uid) ==
    { i \in 1..Len(q.results) :
        q.results[i].user_id = uid /\ ~q.results[i].deleted }

\* the users with a non-deleted answer to q
Answerers(q) == { uid \in Users : LiveAnswers(q, uid) # {} }

\* the document without its deleted answers
WithoutDeleted(survey_data) ==
    [questions |->
        [i \in 1..Len(survey_data.questions) |->
            [survey_data.questions[i] EXCEPT
                !.results = SelectSeq(@, LAMBDA r : ~r.deleted)]]]

RespondentIds == { respondents[i].user_id : i \in 1..Len(respondents) }

RespondentSet == { respondents[i] : i \in 1..Len(respondents) }

\* ---------------------------------------------------------------------
\* C1: ingest returns exactly one Respondent per user of the completion
\* cohort and none for any other user; the cohort is the set of users with
\* a non-deleted answer to the question mapped to tenure, or, only when no
\* question is mapped to tenure, to the question mapped to rating, and it
\* is empty when neither role is mapped.
ExpectedCohort ==
    IF "tenure" \in DOMAIN q_map THEN Answerers(QuestionWithId(q_map["tenure"]))
    ELSE IF "rating" \in DOMAIN q_map THEN Answerers(QuestionWithId(q_map["rating"]))
    ELSE {}

C1_CohortRespondents ==
    pc = "generated" =>
        /\ RespondentIds = ExpectedCohort
        /\ \A i, j \in 1..Len(respondents) :
              respondents[i].user_id = respondents[j].user_id => i = j

\* a user answered the rating question but not the tenure question and is
\* left out, and a cohort member without a rating answer is returned
C1_Witness ==
    /\ pc = "generated"
    /\ "tenure" \in DOMAIN q_map
    /\ "rating" \in DOMAIN q_map
    /\ q_map["tenure"] # q_map["rating"]
    /\ \E uid \in Answerers(QuestionWithId(q_map["rating"])) : uid \notin RespondentIds
    /\ \E i \in 1..Len(respondents) :
          respondents[i].user_id \notin Answerers(QuestionWithId(q_map["rating"]))

\* ---------------------------------------------------------------------
\* C2: deleted answers never influence ingestion: the RoleMap and the
\* Respondent set of a document are those of the document without its
\* deleted answers.
C2_DeletedNeverInfluenceIngest ==
    pc = "generated" =>
        /\ q_map = identify_questions(GetQuestions(WithoutDeleted(doc)))
        /\ \E order \in Orders(IngestCohort(WithoutDeleted(doc))) :
              RespondentSet =
                { ingest(WithoutDeleted(doc), order)[i] : i \in 1..Len(order) }

\* ---------------------------------------------------------------------
\* C3: deleted answers never influence distributions or survey counts:
\* the distributions and the (total_started, total_completed) counts of a
\* document are those of the document without its deleted answers, and a
\* question whose answers are all deleted yields no distribution.
C3_DeletedNeverInfluenceDistributions ==
    /\ pc \in {"generated", "peeked"} =>
          /\ dists = build_question_distributions(WithoutDeleted(doc))
          /\ Len(dists) =
                Cardinality({ i \in 1..Len(doc.questions) :
                    /\ doc.questions[i].type = "multiple_choice"
                    /\ \E k \in 1..Len(doc.questions[i].results) :
                          ~doc.questions[i].results[k].deleted })
    /\ pc = "peeked" => meta = compute_survey_meta(WithoutDeleted(doc))

\* a multiple-choice question with a deleted answer of one user and a
\* live answer of another has been counted
C3_Witness ==
    /\ pc = "peeked"
    /\ Len(dists) > 0
    /\ \E i \in 1..Len(doc.questions) :
          LET q == doc.questions[i]
          IN  /\ q.type = "multiple_choice"
              /\ \E k, l \in 1..Len(q.results) :
                    /\ q.results[k].deleted
                    /\ ~q.results[l].deleted
                    /\ q.results[k].user_id # q.results[l].user_id
                    /\ q.results[k].text # q.results[l].text

\* ---------------------------------------------------------------------
\* C4: first match wins per role: the RoleMap maps each role to the id of
\* the first question, in input order, that satisfies the role's
\* predicate, and the role is absent exactly when no question satisfies it.
RolePred(role, q) ==
    CASE role = "rating" -> RatingPred(q)
      [] role = "open_text" -> OpenTextPred(q)
      [] role = "title" -> TitlePred(q)
      [] role = "company_size" -> CompanySizePred(q)
      [] role = "tenure" -> TenurePred(q)

Candidates(role) ==
    { i \in 1..Len(doc.questions) : RolePred(role, doc.questions[i]) }

C4_FirstMatchWins ==
    pc = "generated" =>
        \A role \in Roles :
            /\ role \in DOMAIN q_map <=> Candidates(role) # {}
            /\ Candidates(role) # {} =>
                  q_map[role] = doc.questions[SetMin(Candidates(role))].id

\* two questions satisfy the predicate of a role and the first one has it
C4_Witness ==
    /\ pc = "generated"
    /\ \E role \in Roles :
          /\ Cardinality(Candidates(role)) >= 2
          /\ q_map[role] = doc.questions[1].id

\* ---------------------------------------------------------------------
\* C5: _is_rating_question is true exactly when the list is non-empty and
\* at least 80% of its answers match the rating pattern (so 4 of 5 is a
\* rating question), and the ranges "2-10" and "11-50" never match.
PatternMatches(responses) ==
    Cardinality({ i \in 1..Len(responses) :
                    RatingPatternMatch(Strip(responses[i].text)) })

C5_RatingThreshold ==
    /\ ~RatingPatternMatch("2-10")
    /\ ~RatingPatternMatch("11-50")
    /\ pc = "detected" =>
          ret = (Len(arg) > 0 /\ 10 * PatternMatches(arg) >= 8 * Len(arg))

\* ---------------------------------------------------------------------
\* C6: in every RoleMap a question id is mapped to at most one role.
C6_OneRolePerQuestion ==
    pc = "generated" =>
        \A r1, r2 \in DOMAIN q_map : q_map[r1] = q_map[r2] => r1 = r2

\* ---------------------------------------------------------------------
\* C7: last answer wins: every Respondent field taken from a question
\* comes from the last non-deleted answer of that user to the question, in
\* input order; deleted answers that come later do not displace it.
FieldsFromAnswer(r, role, a) ==
    CASE role = "rating" ->
            /\ r.rating = ExtractRatingOf(a.text)
            /\ r.voted_at = ParseTimestampOf(a.created_at)
      [] role = "open_text" ->
            r.open_text = IF StripOf(a.text) # "" THEN Some(StripOf(a.text)) ELSE None
      [] role = "title" ->
            r.job_title = IF StripOf(a.text) # "" THEN Some(StripOf(a.text)) ELSE None
      [] role = "company_size" ->
            r.company_size = Some(NormalizeCompanySizeOf(a.text))
      [] role = "tenure" ->
            r.tenure = Some(NormalizeTenureOf(a.text))

C7_LastAnswerWins ==
    pc = "generated" =>
        \A k \in 1..Len(respondents) : \A role \in DOMAIN q_map :
            LET q == QuestionWithId(q_map[role])
                live == LiveAnswers(q, respondents[k].user_id)
            IN  live # {} =>
                   FieldsFromAnswer(respondents[k], role, q.results[SetMax(live)])

\* a returned respondent answered a mapped question twice, with different
\* texts and times, or once with a deleted answer after it
C7_Witness ==
    /\ pc = "generated"
    /\ \E k \in 1..Len(respondents) : \E role \in DOMAIN q_map :
          LET q == QuestionWithId(q_map[role])
              live == LiveAnswers(q, respondents[k].user_id)
          IN  /\ Cardinality(live) >= 2
              /\ \E i, j \in live : q.results[i].text # q.results[j].text

\* ---------------------------------------------------------------------
\* C8: _extract_rating returns the leading integer when the text matches
\* the detector's pattern, the integer when the text is a bare integer,
\* and None for every other text.
C8_ExtractRatingUsesDetectorPattern ==
    pc = "extracted" =>
        LET s == Strip(arg[Len(arg)].text)
        IN  ret = IF RatingPatternMatch(s) THEN Some(ToInt(SubSeq(s, 1, DigitRun(s, 1))))
                  ELSE IF IsDigitStr(s) THEN Some(ToInt(s))
                  ELSE None

\* ---------------------------------------------------------------------
\* C9: every Respondent has a non-null role_level; it is IC when the title
\* role is unmapped, when the respondent did not answer the title
\* question, when the title is empty after trimming, or when the title
\* matches no keyword group.
NoGroupMatches(title) ==
    LET t == TCheck(title)
    IN  /\ ~AnyPattern(FOUNDER_CSUITE_PATTERNS, t)
        /\ ~AnyPattern(VP_DIRECTOR_HEAD_PATTERNS, t)
        /\ ~AnyPattern(GROUP_PM_PATTERNS, t)
        /\ ~SENIOR_MANAGER_PRODUCT(t)

NoGroupTitles == { t \in KnownTexts : NoGroupMatches(t) }

\* whether the title answer of uid is missing, blank or matches no group
TitleGivesIC(uid) ==
    \/ "title" \notin DOMAIN q_map
    \/ LET q == QuestionWithId(q_map["title"])
           live == LiveAnswers(q, uid)
       IN  \/ live = {}
           \/ StripOf(q.results[SetMax(live)].text) = ""
           \/ StripOf(q.results[SetMax(live)].text) \in NoGroupTitles

C9_RoleLevelNeverNull ==
    pc = "generated" =>
        \A k \in 1..Len(respondents) :
            /\ respondents[k].role_level # None
            /\ respondents[k].role_level[1] \in RoleLevel
            /\ TitleGivesIC(respondents[k].user_id) =>
                  respondents[k].role_level = Some(IC)

\* the title role is mapped and a returned respondent has no title answer
C9_Witness ==
    /\ pc = "generated"
    /\ "title" \in DOMAIN q_map
    /\ \E k \in 1..Len(respondents) :
          /\ LiveAnswers(QuestionWithId(q_map["title"]), respondents[k].user_id) = {}
          /\ respondents[k].role_level = Some(IC)

\* ---------------------------------------------------------------------
\* C10: categorize_role gives the level of the first keyword group, in the
\* order founder/C-suite, VP/Director/Head, group-PM, that matches the
\* lower-cased title (with "product owner" neutralized); a title matching
\* two groups gets the earlier one, and a title with a VP/Director/Head
\* keyword and "product" but no founder/C-suite keyword, such as
\* "VP of Product, previously a Product Owner", is VP_DIRECTOR_HEAD.
GroupLevels == << FOUNDER_CSUITE, VP_DIRECTOR_HEAD, GROUP_PM_MANAGER >>

GroupMatches(g, t) ==
    CASE g = 1 -> \E k \in 1..Len(FOUNDER_CSUITE_PATTERNS) :
                     WordSearch(t, FOUNDER_CSUITE_PATTERNS[k])
      [] g = 2 -> \E k \in 1..Len(VP_DIRECTOR_HEAD_PATTERNS) :
                     WordSearch(t, VP_DIRECTOR_HEAD_PATTERNS[k])
      [] g = 3 -> \/ \E k \in 1..Len(GROUP_PM_PATTERNS) :
                        WordSearch(t, GROUP_PM_PATTERNS[k])
                  \/ SENIOR_MANAGER_PRODUCT(t)

MatchingGroups(title) ==
    { g \in 1..Len(GroupLevels) : GroupMatches(g, TCheck(title)) }

C10_RolePrecedence ==
    pc = "categorized" =>
        LET title == Join(arg)
            groups == MatchingGroups(title)
        IN  /\ ret = IF groups = {} THEN IC ELSE GroupLevels[SetMin(groups)]
            /\ (2 \in groups /\ 1 \notin groups /\ Contains(ToLower(title), "product"))
                  => ret = VP_DIRECTOR_HEAD
            /\ title = "VP of Product, previously a Product Owner"
                  => ret = VP_DIRECTOR_HEAD

\* a title with keywords of the first two groups is FOUNDER_CSUITE
C10_Witness ==
    /\ pc = "categorized"
    /\ {1, 2} \subseteq MatchingGroups(Join(arg))
    /\ Contains(ToLower(Join(arg)), "product")
    /\ ret = FOUNDER_CSUITE

\* the same precedence with the groups matched against the lower-cased
\* title itself, without the "product owner" replacement of line 67: it
\* fails for "Product Owner", whose "owner" is a founder/C-suite keyword
\* of the unguarded title while categorize_role returns IC
MatchingGroupsUnguarded(title) ==
    { g \in 1..Len(GroupLevels) : GroupMatches(g, Strip(ToLower(title))) }

C10_UnguardedPrecedence ==
    pc = "categorized" =>
        LET groups == MatchingGroupsUnguarded(Join(arg))
        IN  ret = IF groups = {} THEN IC ELSE GroupLevels[SetMin(groups)]

\* ---------------------------------------------------------------------
\* C11: an occurrence of "product owner", in any letter case, never
\* triggers the founder/C-suite keyword "owner": a title whose only
\* founder/C-suite keyword is the "owner" of a "product owner" is
\* classified by the remaining groups ("Product Owner" alone is IC), and a
\* title with a standalone "owner" is FOUNDER_CSUITE.

\* the word "owner" occurs in t outside every occurrence of "product owner"
StandaloneOwner(t) ==
    \E i \in 1..Len(t) :
        /\ BMatchAt(t, "owner", i)
        /\ ~(i > 8 /\ SubSeq(t, i - 8, i - 1) = "product ")

\* a founder/C-suite keyword other than "owner" occurs in t
OtherFounderKeyword(t) ==
    \E k \in 1..Len(FOUNDER_CSUITE_PATTERNS) :
        /\ FOUNDER_CSUITE_PATTERNS[k] # "owner"
        /\ WordSearch(t, FOUNDER_CSUITE_PATTERNS[k])

\* the level the groups after founder/C-suite give
RemainingGroups(title) ==
    LET groups == MatchingGroups(title) \ {1}
    IN  IF groups = {} THEN IC ELSE GroupLevels[SetMin(groups)]

C11_ProductOwnerGuard ==
    pc = "categorized" =>
        LET title == Join(arg)
            t == Strip(ToLower(title))
        IN  /\ (~StandaloneOwner(t) /\ ~OtherFounderKeyword(t)) =>
                  /\ ret # FOUNDER_CSUITE
                  /\ ret = RemainingGroups(title)
            /\ (title # "" /\ StandaloneOwner(t)) => ret = FOUNDER_CSUITE
            /\ title = "Product Owner" => ret = IC

\* a title with "Product Owner" and a VP/Director/Head keyword, and no
\* other "owner", is VP_DIRECTOR_HEAD
C11_Witness ==
    /\ pc = "categorized"
    /\ Contains(ToLower(Join(arg)), "product owner")
    /\ WordSearch(Strip(ToLower(Join(arg))), "owner")
    /\ ~StandaloneOwner(Strip(ToLower(Join(arg))))
    /\ ret = VP_DIRECTOR_HEAD

\* ---------------------------------------------------------------------
\* C12: _normalize_company_size and _normalize_tenure give the canonical
\* label of a raw string whose trimmed, lower-cased form is a key of the
\* fixed table, for any letter case and surrounding whitespace, and give
\* the raw string back unchanged when it is not a key.

\* the keys of a table of <<key, value>> pairs
KeysOf(table) == { table[k][1] : k \in 1..Len(table) }

\* ret is the normalization of raw by the table
NormalizedBy(table, raw) ==
    /\ \A k \in 1..Len(table) :
          Strip(ToLower(raw)) = table[k][1] => ret = table[k][2]
    /\ Strip(ToLower(raw)) \notin KeysOf(table) => ret = raw

C12_CategoricalNormalization ==
    /\ pc = "company_size" => NormalizedBy(COMPANY_SIZE_MAP, RawOf(arg))
    /\ pc = "tenure" => NormalizedBy(TENURE_MAP, RawOf(arg))
    /\ pc \in {"company_size", "tenure"} =>
          \* these raw answers are keys whatever surrounds them, those are not
          /\ arg[2] = "JUST ME" => (pc = "company_size" <=> ret = "Just me")
          /\ arg[2] = "1-2 Years" =>
                ret = IF pc = "tenure" THEN "1" \o EnDash \o "2 years" ELSE RawOf(arg)
          /\ arg[2] \in {"2 - 10", "Startup", "1-2  years"} => ret = RawOf(arg)

\* a company size in upper case with whitespace on both sides is mapped
C12_Witness ==
    /\ pc = "company_size"
    /\ arg[1] # "" /\ arg[3] # ""
    /\ arg[2] # ToLower(arg[2])
    /\ ret = "Just me"

\* ---------------------------------------------------------------------
\* C13: structurally invalid documents fail hard: when the document has no
\* questions key, or an answer has no user_id, ingest and
\* build_question_distributions raise instead of returning a result.
StructurallyInvalid(survey_data) ==
    \/ ~Has(survey_data, "questions")
    \/ \E i \in 1..Len(survey_data.questions) :
          \E k \in 1..Len(survey_data.questions[i].results) :
              ~Has(survey_data.questions[i].results[k], "user_id")

C13_StructurallyInvalidFailsHard ==
    (pc \in {"ingested", "distributed"} /\ StructurallyInvalid(doc)) =>
        Has(ret, "raised")

\* ---------------------------------------------------------------------
\* C14: field-level problems never abort ingestion: for a document with
\* its questions list and with a user_id on every answer, ingest returns a
\* list with one Respondent per cohort member, also when an answer has no
\* text.
FieldLevelOnly(survey_data) ==
    /\ Has(survey_data, "questions")
    /\ ~StructurallyInvalid(survey_data)

C14_FieldProblemsNeverAbort ==
    (pc = "ingested" /\ FieldLevelOnly(doc)) =>
        /\ Has(ret, "value")
        /\ Len(ret.value) = Cardinality(IngestCohort(doc))

\* ---------------------------------------------------------------------
\* C15: build_question_distributions returns exactly one
\* QuestionDistribution for each multiple_choice question with at least
\* one non-deleted answer, in the order of the questions, and none for a
\* question of another type or without a non-deleted answer.

\* the positions of the non-deleted answers of q
LivePositions(q) == { k \in 1..Len(q.results) : ~q.results[k].deleted }

\* the positions of the questions that get a distribution
Qualifying ==
    { i \in 1..Len(doc.questions) :
        /\ doc.questions[i].type = "multiple_choice"
        /\ LivePositions(doc.questions[i]) # {} }

\* the j-th smallest element of a set of numbers
NthOf(S, j) == CHOOSE i \in S : Cardinality({ k \in S : k <= i }) = j

\* the question the j-th distribution is expected to be about
DistQuestion(j) == doc.questions[NthOf(Qualifying, j)]

RECURSIVE SumCounts(_)
SumCounts(choices) ==
    IF Len(choices) = 0 THEN 0 ELSE Head(choices).count + SumCounts(Tail(choices))

C15_OneDistributionPerQuestion ==
    pc \in {"generated", "peeked"} =>
        /\ Len(dists) = Cardinality(Qualifying)
        /\ \A j \in 1..Len(dists) :
              /\ dists[j].question = DistQuestion(j).text
              /\ SumCounts(dists[j].choices) =
                    Cardinality(LivePositions(DistQuestion(j)))

\* two multiple-choice questions with different texts and a non-deleted
\* answer each have their distributions, in their order
C15_Witness ==
    /\ pc = "generated"
    /\ Len(dists) = 2
    /\ dists[1].question # dists[2].question
    /\ dists[1].question = doc.questions[1].text

\* ---------------------------------------------------------------------
\* C16: in every QuestionDistribution n_respondents is the number of
\* distinct user_ids among the question's non-deleted answers, and
\* is_multiselect is true exactly when the number of non-deleted answers
\* exceeds n_respondents.
C16_RespondentsAndMultiselect ==
    pc \in {"generated", "peeked"} =>
        \A j \in 1..Len(dists) :
            LET q == DistQuestion(j)
                live == LivePositions(q)
            IN  /\ dists[j].n_respondents =
                      Cardinality({ q.results[k].user_id : k \in live })
                /\ dists[j].is_multiselect =
                      (Cardinality(live) > dists[j].n_respondents)

\* one respondent gave two non-deleted answers to a question
C16_Witness ==
    /\ pc = "peeked"
    /\ \E j \in 1..Len(dists) :
          /\ dists[j].is_multiselect
          /\ dists[j].n_respondents = 1
          /\ Cardinality(LivePositions(DistQuestion(j))) = 2

\* ---------------------------------------------------------------------
\* C17: for every ChoiceEntry of every QuestionDistribution, also of a
\* question where one respondent has several answers, 0 <= pct <= 100,
\* where pct is count / n_respondents * 100 rounded to one decimal (pct is
\* held in tenths of a percent).
C17_PctBounds ==
    pc \in {"generated", "peeked"} =>
        \A j \in 1..Len(dists) : \A i \in 1..Len(dists[j].choices) :
            LET c == dists[j].choices[i]
            IN  /\ c.pct = RoundDiv(1000 * c.count, dists[j].n_respondents)
                /\ 0 <= c.pct
                /\ c.pct <= 1000

\* ---------------------------------------------------------------------
\* The distribution of the one question of the documents of SpecChoices.

\* the distribution built (there is one as soon as a vote was cast)
TheDist == ret.value[1]

\* the distinct choice texts of the question
VotedTexts ==
    { doc.questions[1].results[k].text : k \in 1..Len(doc.questions[1].results) }

\* the choice text a label was made of (the labels of ChoiceTexts differ)
RawFor(label) == CHOOSE t \in VotedTexts : ShortChoiceOf(t) = label

\* the choice text of the i-th entry of the distribution
RawAt(i) == RawFor(TheDist.choices[i].label)

\* the positions of the entries whose choice text begins with an integer
NumericAt == { i \in 1..Len(TheDist.choices) : OrdinalSortKeyOf(RawAt(i)) # None }

\* at least 3 distinct choices, at least 60% of them with a leading integer
OrdinalSet ==
    /\ Len(TheDist.choices) >= 3
    /\ 10 * Cardinality(NumericAt) >= 6 * Len(TheDist.choices)

\* the entries are in descending order of count
ByFrequency ==
    \A i, j \in 1..Len(TheDist.choices) :
        i < j => TheDist.choices[i].count >= TheDist.choices[j].count

\* ---------------------------------------------------------------------
\* C18: for every ChoiceEntry 0 <= bar_width <= 100, bar_width is pct
\* relative to the largest pct of the question, rounded to one decimal,
\* and every choice with the largest pct has bar_width exactly 100
\* (pct and bar_width are held in tenths).
LargestPct == SetMax({ TheDist.choices[i].pct : i \in 1..Len(TheDist.choices) })

C18_BarWidthBounds ==
    (pc = "distributed" /\ Len(ret.value) > 0) =>
        \A i \in 1..Len(TheDist.choices) :
            LET c == TheDist.choices[i]
            IN  /\ 0 <= c.bar_width
                /\ c.bar_width <= 1000
                /\ c.bar_width = RoundDiv(1000 * c.pct, LargestPct)
                /\ c.pct = LargestPct => c.bar_width = 1000

\* a choice with a third of the largest pct, itself not a whole percentage
C18_Witness ==
    /\ pc = "distributed"
    /\ Len(ret.value) > 0
    /\ LargestPct = 1000
    /\ \E i \in 1..Len(TheDist.choices) :
          /\ TheDist.choices[i].pct = 333
          /\ TheDist.choices[i].bar_width = 333

\* ---------------------------------------------------------------------
\* C19: for a non-rating question with at least 3 distinct choice texts of
\* which at least 60% begin with an integer, the choices are listed in
\* ascending order of that integer whatever their frequencies; with fewer
\* than 3 distinct choices or fewer than 60% numeric choices the choices
\* are not treated as ordinal (they stay in the order of their counts).
C19_OrdinalOrdering ==
    (pc = "distributed" /\ Len(ret.value) > 0 /\ ~TheDist.is_rating) =>
        IF OrdinalSet
        THEN \A i, j \in NumericAt :
                i < j => OrdinalSortKeyOf(RawAt(i))[1] <= OrdinalSortKeyOf(RawAt(j))[1]
        ELSE ByFrequency

\* "2-10" is listed before "11-50" although "11-50" has more votes
C19_Witness ==
    /\ pc = "distributed"
    /\ Len(ret.value) > 0
    /\ ~TheDist.is_rating
    /\ OrdinalSet
    /\ \E i, j \in 1..Len(TheDist.choices) :
          /\ i < j
          /\ RawAt(i) = "2-10" /\ RawAt(j) = "11-50"
          /\ TheDist.choices[i].count < TheDist.choices[j].count

\* ---------------------------------------------------------------------
\* C20: in a QuestionDistribution with is_rating true the choices are in
\* ascending order of their extracted rating, a choice with no parseable
\* rating counting as 0; in one that is neither rating nor ordinal the
\* choices are in descending order of count.
C20_RatingAndFrequencyOrdering ==
    (pc = "distributed" /\ Len(ret.value) > 0) =>
        /\ TheDist.is_rating =>
              /\ \A i \in 1..Len(TheDist.choices) :
                    TheDist.choices[i].rating = Some(ChoiceRatingOf(RawAt(i)))
              /\ \A i, j \in 1..Len(TheDist.choices) :
                    i < j => TheDist.choices[i].rating[1] <= TheDist.choices[j].rating[1]
        /\ (~TheDist.is_rating /\ ~OrdinalSet) =>
              /\ ByFrequency
              /\ \A i \in 1..Len(TheDist.choices) : TheDist.choices[i].rating = None

\* a rating question whose most frequent choice has the higher rating and
\* is listed last
C20_Witness ==
    /\ pc = "distributed"
    /\ Len(ret.value) > 0
    /\ TheDist.is_rating
    /\ Len(TheDist.choices) = 2
    /\ TheDist.choices[1].rating[1] < TheDist.choices[2].rating[1]
    /\ TheDist.choices[1].count < TheDist.choices[2].count

\* ---------------------------------------------------------------------
\* C21: short_choice label rules.  For a text with an em-dash or en-dash
\* separator the label is the part after the first separator when the part
\* before it is purely numeric, and otherwise the trimmed part before it;
\* without such a separator an ASCII "N - label" text is shortened to the
\* label only when the remainder is not purely numeric or plus-suffixed;
\* every other text ("11-50", "5001+", "Just me") is returned trimmed.

\* the positions of text where an em-dash or en-dash separator begins
SeparatorsAt(text) ==
    { i \in 1..(Len(text) - 2) :
        SubSeq(text, i, i + 2) \in { " " \o EmDash \o " ", " " \o EnDash \o " " } }

\* digits, or digits followed by plus signs
NumericOrPlusSuffixed(s) ==
    \E d \in 1..Len(s) :
        /\ \A k \in 1..d : IsDigit(Ch(s, k))
        /\ \A k \in (d + 1)..Len(s) : Ch(s, k) = "+"

\* where the hyphen of a leading "N - label" is (0: the text has no such form)
HyphenAt(text) ==
    LET d == DigitRun(text, 1)
        at == d + SpaceRun(text, d + 1) + 1
    IN  IF /\ d >= 1 /\ at > d + 1 /\ at + 2 <= Len(text)
           /\ Ch(text, at) = "-" /\ IsSpace(Ch(text, at + 1))
        THEN at ELSE 0

\* the label the rules give
LabelByRules(text) ==
    IF SeparatorsAt(text) # {}
    THEN LET i == SetMin(SeparatorsAt(text))
             before == Strip(SubSeq(text, 1, i - 1))
             after == Strip(SubSeq(text, i + 3, Len(text)))
         IN  IF IsDigitStr(before) THEN after ELSE before
    ELSE IF HyphenAt(text) # 0
            /\ ~NumericOrPlusSuffixed(Strip(SubSeq(text, HyphenAt(text) + 1, Len(text))))
         THEN Strip(SubSeq(text, HyphenAt(text) + 1, Len(text)))
         ELSE Strip(text)

C21_ShortChoiceLabelRules ==
    pc = "shortened" =>
        /\ ret = LabelByRules(Join(arg))
        /\ Join(arg) \in {"11-50", "5001+", "Just me"} => ret = Join(arg)

\* ---------------------------------------------------------------------
\* C22: empty input is tolerated.  For a document with an empty questions
\* list the RoleMap, the Respondent list and the Distribution list are
\* empty and nothing raises; a question with zero answers is never the
\* rating question, contributes no cohort member and no distribution, and
\* does not make the commands raise.

\* the positions of the questions without any answer
Unanswered == { i \in 1..Len(doc.questions) : doc.questions[i].results = <<>> }

\* the question the cohort is taken from has no answer
CohortQuestionUnanswered ==
    \E i \in Unanswered :
        \/ "tenure" \in DOMAIN q_map /\ q_map["tenure"] = doc.questions[i].id
        \/ /\ "tenure" \notin DOMAIN q_map
           /\ "rating" \in DOMAIN q_map /\ q_map["rating"] = doc.questions[i].id

C22_EmptyInputTolerated ==
    /\ pc # "raised"
    /\ (pc = "generated" /\ doc.questions = <<>>) =>
          q_map = EmptyDict /\ respondents = <<>> /\ dists = <<>>
    /\ (pc = "peeked" /\ doc.questions = <<>>) => dists = <<>> /\ meta = <<0, 0>>
    /\ pc = "generated" =>
          /\ \A i \in Unanswered :
                ~("rating" \in DOMAIN q_map /\ q_map["rating"] = doc.questions[i].id)
          /\ CohortQuestionUnanswered => respondents = <<>>
    /\ pc \in {"generated", "peeked"} =>
          /\ Len(dists) <= Len(doc.questions) - Cardinality(Unanswered)
          /\ \A j \in 1..Len(dists) :
                dists[j].n_respondents >= 1 /\ dists[j].choices # <<>>

\* a multiple-choice question without answers, mapped to tenure, before a
\* rating question with an answer: a distribution for the second only, and
\* no respondent
C22_Witness ==
    /\ pc = "generated"
    /\ Len(doc.questions) = 2
    /\ doc.questions[1].type = "multiple_choice"
    /\ doc.questions[1].results = <<>>
    /\ "tenure" \in DOMAIN q_map /\ q_map["tenure"] = doc.questions[1].id
    /\ "rating" \in DOMAIN q_map /\ q_map["rating"] = doc.questions[2].id
    /\ Len(dists) = 1
    /\ respondents = <<>>

\* ---------------------------------------------------------------------
\* C23: every Respondent returned by ingest has a non-deleted answer to
\* the last question of the questions list, and the users ingest returns
\* are the users compute_survey_meta counts as total_completed.
C23_RespondentsAnsweredLastQuestion ==
    (pc = "generated" /\ doc.questions # <<>>) =>
        LET last_q == doc.questions[Len(doc.questions)]
        IN  /\ \A k \in 1..Len(respondents) :
                  LiveAnswers(last_q, respondents[k].user_id) # {}
            /\ RespondentIds = CountedUsers(last_q)
            /\ Len(respondents) = compute_survey_meta(doc)[2]

\* ---------------------------------------------------------------------
\* The /generate commands of SpecBot.

\* survey_id = command.get("text", "").strip()
SurveyIdOf(i) == Strip(commands[i].text)

\* the worker of command i is doing the work of a generate: it was started
\* and has not yet given its key back
Running(i) ==
    commands[i].worker \in
        {"run_generate", "push_draft_to_github", "respond", "except", "finally"}

\* command i was accepted and its key is not yet given back: its worker is
\* about to be started by its handler, or is running
Holds(i) == commands[i].at = "start" \/ Running(i)

\* ---------------------------------------------------------------------
\* C24: duplicate /generate suppression.  Under any interleaving at most
\* one generate worker runs for a survey_id at a time; a /generate handled
\* while one for the same survey_id is accepted or running is answered
\* "already running" and starts no worker; /generate commands for other
\* survey_ids are accepted.
OneWorkerPerSurvey ==
    \A i, j \in 1..Len(commands) :
        (Holds(i) /\ Holds(j) /\ SurveyIdOf(i) = SurveyIdOf(j)) => i = j

RejectedStartNoWorker ==
    \A i \in 1..Len(commands) :
        commands[i].ack = Some(AckAlreadyRunning(SurveyIdOf(i))) =>
            commands[i].at = "returned" /\ commands[i].worker = "none"

\* the step in which the handler of command j answers
DuplicateCheck(j) ==
    (/\ j \in 1..Len(commands)
     /\ commands[j].at = "handle_generate"
     /\ commands'[j].at # "handle_generate"
     /\ commands[j].channel_id = ALLOWED_CHANNEL
     /\ SurveyIdOf(j) # "")
    => IF \E i \in 1..Len(commands) : Holds(i) /\ SurveyIdOf(i) = SurveyIdOf(j)
       THEN /\ commands'[j].ack = Some(AckAlreadyRunning(SurveyIdOf(j)))
            /\ commands'[j].at = "returned"
            /\ commands'[j].worker = "none"
            /\ active' = active
       ELSE /\ commands'[j].ack = Some(AckGenerating(SurveyIdOf(j)))
            /\ commands'[j].at = "start"

C24_DuplicateGenerateSuppressed ==
    /\ [](OneWorkerPerSurvey /\ RejectedStartNoWorker)
    /\ [][\A j \in 1..MaxCommands : DuplicateCheck(j)]_vars

\* workers for s1 and for s2 run at the same time, and a third command for
\* s1 was answered "already running"
C24_Witness ==
    /\ Len(commands) = 3
    /\ \E i, j, k \in 1..3 :
          /\ Running(i) /\ SurveyIdOf(i) = "s1"
          /\ Running(j) /\ SurveyIdOf(j) = "s2"
          /\ SurveyIdOf(k) = "s1"
          /\ commands[k].ack = Some(AckAlreadyRunning("s1"))

\* ---------------------------------------------------------------------
\* C25: release of the /generate key.  Every key put into _active by an
\* accepted /generate is eventually removed, whether the worker finishes
\* normally or run_generate, push_draft_to_github or respond raises; a key
\* is in _active only while the command that put it there is accepted or
\* its worker runs, so that once the worker has ended a new /generate for
\* the same survey_id is accepted.
GenerateKeys == { KeyOf(Strip(command.text)) : command \in CommandInputs }

KeyOnlyWhileHeld ==
    \A key \in DOMAIN active :
        \E i \in 1..Len(commands) : Holds(i) /\ KeyOf(SurveyIdOf(i)) = key

CardsOf(fs, slug) ==
    IF Has(fs, INDEX_PATH)
    THEN Occurrences(fs[INDEX_PATH], "<a href=\"/polls/" \o slug \o ".html\"")
    ELSE {}

OneCardPerSlug == \A slug \in Slugs : Cardinality(CardsOf(files, slug)) <= 1

\* index.html is not what it was before the step
IndexChanged ==
    Has(files', INDEX_PATH) /\ (Has(files, INDEX_PATH) => files'[INDEX_PATH] # files[INDEX_PATH])

\* a step of publish(slug, ...) changes index.html only when the poll is
\* not listed yet; it then leaves the cards of the other polls as they are
\* and puts one card for the poll before the marker
PublishStep(slug) ==
    (arg' # None /\ arg'.slug = slug /\ IndexChanged) =>
        /\ Has(files, INDEX_PATH)
        /\ CardsOf(files, slug) = {}
        /\ \A other \in Slugs \ {slug} :
              Cardinality(CardsOf(files', other)) = Cardinality(CardsOf(files, other))
        /\ Cardinality(CardsOf(files', slug)) = 1
        /\ \E m \in Occurrences(files'[INDEX_PATH], INSERT_MARKER) :
              \A c \in CardsOf(files', slug) : c < m

C26_IndexUpdateIdempotent ==
    /\ []OneCardPerSlug
    /\ [][\A slug \in Slugs : PublishStep(slug)]_vars

\* "ai" was inserted before "ai-tools" and then published again: each has
\* its one card, in the order of their insertion
C26_Witness ==
    /\ arg # None
    /\ arg.slug = "ai"
    /\ ret = Returned(None)
    /\ Cardinality(CardsOf(files, "ai")) = 1
    /\ Cardinality(CardsOf(files, "ai-tools")) = 1
    /\ \A c \in CardsOf(files, "ai") : \A d \in CardsOf(files, "ai-tools") : c < d

\* ---------------------------------------------------------------------
\* C27: in every RoleMap the open_text role and the title role are never
\* filled by the same question: an open_ended question whose text contains
\* "title" or "your role" is never open_text, and a question whose text
\* contains none of "title", "current role", "your role" is never title.

\* the question at position i has the role in the RoleMap
HasRole(i, role) == role \in DOMAIN q_map /\ q_map[role] = doc.questions[i].id

\* the lower-cased text of the question at position i contains kw
TextHas(i, kw) == Contains(ToLower(doc.questions[i].text), kw)

C27_OpenTextAndTitleDisjoint ==
    pc = "identified" =>
        \A i \in 1..Len(doc.questions) :
            /\ ~(HasRole(i, "open_text") /\ HasRole(i, "title"))
            /\ (TextHas(i, "title") \/ TextHas(i, "your role")) => ~HasRole(i, "open_text")
            /\ (~TextHas(i, "title") /\ ~TextHas(i, "current role")
                  /\ ~TextHas(i, "your role")) => ~HasRole(i, "title")

\* an open_ended "current role" question gets neither role, and the
\* open_ended "YOUR ROLE" question after it is the title question only
C27_Witness ==
    /\ pc = "identified"
    /\ Len(doc.questions) = 2
    /\ doc.questions[1].type = "open_ended"
    /\ TextHas(1, "current role")
    /\ ~HasRole(1, "open_text") /\ ~HasRole(1, "title")
    /\ doc.questions[2].type = "open_ended"
    /\ TextHas(2, "your role") /\ ~TextHas(2, "title")
    /\ HasRole(2, "title") /\ ~HasRole(2, "open_text")

\* ---------------------------------------------------------------------
\* C28: tenure presence follows the cohort rule: when a question is mapped
\* to the tenure role every Respondent returned by ingest has a tenure
\* that is not None; when no question is mapped to tenure every returned
\* Respondent has tenure None and a non-deleted answer to the rating
\* question.
C28_TenureFollowsCohort ==
    pc = "generated" =>
        \A i \in 1..Len(respondents) :
            IF "tenure" \in DOMAIN q_map
            THEN respondents[i].tenure # None
            ELSE /\ respondents[i].tenure = None
                 /\ "rating" \in DOMAIN q_map
                 /\ respondents[i].user_id \in Answerers(QuestionWithId(q_map["rating"]))

\* without a tenure question the two users who rated are returned, both
\* with tenure None
C28_Witness ==
    /\ pc = "generated"
    /\ "tenure" \notin DOMAIN q_map
    /\ "rating" \in DOMAIN q_map
    /\ Len(respondents) = 2
    /\ \A i \in 1..2 : respondents[i].tenure = None /\ respondents[i].rating # None

\* ---------------------------------------------------------------------
\* C29: count conservation in distributions: in every QuestionDistribution
\* each choice has count >= 1, the choices correspond one-to-one to the
\* distinct non-deleted answer texts, the counts sum to the number of
\* non-deleted answers of the question, and 1 <= n_respondents <= that
\* sum, with equality exactly when is_multiselect is false.

\* the positions of the entries made of the choice text t
EntriesFor(t) ==
    { i \in 1..Len(TheDist.choices) : TheDist.choices[i].label = ShortChoiceOf(t) }

\* the number of non-deleted answers of the question
LiveVotes == Cardinality(LivePositions(doc.questions[1]))

C29_CountConservation ==
    (pc = "distributed" /\ Len(ret.value) > 0) =>
        /\ \A i \in 1..Len(TheDist.choices) : TheDist.choices[i].count >= 1
        /\ Len(TheDist.choices) = Cardinality(VotedTexts)
        /\ \A t \in VotedTexts :
              /\ Cardinality(EntriesFor(t)) = 1
              /\ \A i \in EntriesFor(t) :
                    TheDist.choices[i].count =
                        Cardinality({ k \in LivePositions(doc.questions[1]) :
                                         doc.questions[1].results[k].text = t })
        /\ SumCounts(TheDist.choices) = LiveVotes
        /\ 1 <= TheDist.n_respondents
        /\ TheDist.n_respondents <= LiveVotes
        /\ (TheDist.n_respondents = LiveVotes) <=> ~TheDist.is_multiselect

\* four votes of two respondents on two choices, one of them chosen three
\* times and twice by the same respondent
C29_Witness ==
    /\ pc = "distributed"
    /\ Len(ret.value) > 0
    /\ LiveVotes = 4
    /\ TheDist.n_respondents = 2
    /\ TheDist.is_multiselect
    /\ Len(TheDist.choices) = 2
    /\ TheDist.choices[1].count = 3
    /\ \E u \in Voters(doc.questions[1].results) :
          Cardinality({ k \in 1..4 : /\ doc.questions[1].results[k].user_id = u
                                     /\ ShortChoiceOf(doc.questions[1].results[k].text)
                                           = TheDist.choices[1].label }) = 2

\* ---------------------------------------------------------------------
\* C30: auto-detected sentiment thresholds are ordered: for every document
\* detect_config sets positive_threshold to the second-highest and
\* negative_threshold to the second-lowest detected scale value (both to
\* the single value for a one-point scale, 4 and 2 for the default 1-5
\* scale), and negative_threshold <= positive_threshold holds for every
\* detected scale, so that no rating is at once >= positive_threshold and
\* <= negative_threshold unless the two are equal.

\* the values of the detected scale
ScaleValues == DOMAIN ret.scale_labels

\* the ratings a respondent can have on the texts of the scale
Ratings == 0..6

C30_ThresholdsOrdered ==
    pc = "configured" =>
        /\ IF Cardinality(ScaleValues) >= 2
           THEN /\ ret.positive_threshold = SetMax(ScaleValues \ {SetMax(ScaleValues)})
                /\ ret.negative_threshold = SetMin(ScaleValues \ {SetMin(ScaleValues)})
           ELSE /\ ret.positive_threshold = SetMax(ScaleValues)
                /\ ret.negative_threshold = SetMax(ScaleValues)
        /\ ScaleValues = 1..5 =>
              ret.positive_threshold = 4 /\ ret.negative_threshold = 2
        /\ ret.negative_threshold <= ret.positive_threshold
        /\ \A rating \in Ratings :
              (rating >= ret.positive_threshold /\ rating <= ret.negative_threshold)
                  => ret.positive_threshold = ret.negative_threshold

====
